---- MODULE Spec2Model ----
(***************************************************************************)
(* Rapid Reporter: the session capture pipeline of the main window         *)
(* (src/src/App.tsx), the instrument panel                                 *)
(* (src/src/components/InstrumentPanel.tsx) and the start modal.           *)
(*                                                                         *)
(* Every asynchronous handler is split at its awaits: the part up to the   *)
(* first await is one action, and every settlement of an awaited promise   *)
(* (resolve or reject) is one action that runs the handler up to its next  *)
(* await.  React state set by a handler is visible to the next handler.    *)
(* Strings are sequences of one-character strings, so that trim() is       *)
(* computed and not assumed.                                               *)
(***************************************************************************)
EXTENDS Integers, Sequences, FiniteSets, TLC

VARIABLES
    session,            \* useState<Session | null>            App.tsx:39
    recapOpen,          \* useState(false)                      App.tsx:40
    endConfirmOpen,     \* useState(false)                      App.tsx:41
    exportError,        \* useState<string | null>: TRUE = the message is set
    isRegionCapturing,  \* useState(false)                      App.tsx:43
    noteType,           \* InstrumentPanel useState("test")
    text,               \* InstrumentPanel useState("")
    isCapturing,        \* InstrumentPanel useState(false)
    exports,            \* performEndSession calls awaiting export_session_markdown
    opens,              \* openRegionCapture calls in flight
    overlayOpen,        \* the overlay window exists
    inbox,              \* events emitted to the main window, not yet delivered
    pipelines,          \* region-selected listener calls in flight
    shots,              \* captureScreenshot calls in flight
    platform,           \* what platform_os answers on this machine
    nextId,             \* stands for crypto.randomUUID(): a value never used before
    now,                \* the clock read by Date.now()
    overlay,            \* RegionOverlay's state and refs, and what the test watches
    submits,            \* onPointerUp calls awaiting submit_region_selection
    modal,              \* StartSessionModal's fields, and the saved tester name
    effects,            \* the runs of App's listener effect      App.tsx:74
    listeners,          \* the handlers registered with the main window
    sessionRef,         \* sessionRef.current                    App.tsx:69
    last                \* the handler step taken last (history, for the properties)

vars == << session, recapOpen, endConfirmOpen, exportError, isRegionCapturing,
           noteType, text, isCapturing, exports, opens, overlayOpen,
           inbox, pipelines, shots, platform, nextId, now, overlay, submits,
           modal, effects, listeners, sessionRef, last >>

-----------------------------------------------------------------------------
(* Bounds of the exploration *)

MaxInFlight == 2
MaxCommits == 2
MaxTime == 1
MaxMounts == 2

(* Program constants *)

NOTE_CAP == 200

-----------------------------------------------------------------------------
(* Values *)

NoSession == [none |-> TRUE]

NoPath == << >>

NoLimit == 0

Durations == {30, 60, 90, 120, NoLimit}

Names == { <<"D", "e", "l">> }

Charters == { <<" ", "c", "h", "r", " ">> }

Texts == { <<"\r">>, <<" ", "a", " ">>, <<"\n", "U+00A0", "a", " ", "b", "\f", "\t">> }

Paths == { <<"/", "p">>, <<"/", "q">> }

Platforms == {"windows", "macos"}

Monitor(id, idOk, x, y, w, h) ==
    [id |-> id, idOk |-> idOk, position |-> [x |-> x, y |-> y],
     size |-> [width |-> w, height |-> h]]

MonitorLists ==
    { << >>,
      << Monitor(1, TRUE, 0, 0, 100, 100), Monitor(2, TRUE, 100, 0, 200, 200) >>,
      << Monitor(7, FALSE, 0, 0, 100, 100) >> }

Selections ==
    { [x |-> 150, y |-> 10, width |-> 20, height |-> 30, devicePixelRatio |-> 2] }

(* Pointer events of the overlay.  Screen coordinates are JavaScript numbers
   and need not be whole: they are counted in halves of a unit, so that
   Math.round has something to round. *)

Half == 2

PointerEvent(button, x, y) == [button |-> button, screenX |-> x, screenY |-> y]

OverlayPoints == { <<20, 20>>, <<26, 24>>, <<80, 24>>, <<31, 80>> }

PointerDowns ==
    { PointerEvent(b, pt[1], pt[2]) : b \in {0, 2}, pt \in OverlayPoints }

PointerUps == { PointerEvent(0, pt[1], pt[2]) : pt \in OverlayPoints }

NoStart == [none |-> TRUE]

devicePixelRatio == 2

(* RegionOverlay as mounted: its useState and useRef defaults.  The update
   of a pointer event is rendered before the next event is delivered, so the
   handlers attached always see the dragging that was set last.  rect, the
   rectangle drawn in client coordinates, and onPointerMove, which only
   updates it, are display and are left out.  sent (the submissions invoked
   for the gesture in progress), lastUp (the pointer-up that ended it) and
   discarded (a drag was discarded since the overlay opened) watch the
   gestures and change nothing. *)

MountedOverlay ==
    [dragging |-> FALSE, startRef |-> NoStart,
     submittedRef |-> FALSE, sent |-> 0, lastUp |-> NoStart, discarded |-> FALSE]

-----------------------------------------------------------------------------
(* Helpers *)

Max(a, b) == IF a > b THEN a ELSE b

(* Math.round cutting the half off *)

Round_floor(h) == h \div Half

(* Math.round of a number counted in halves: to the nearest whole, a half
   going up *)

Round(h) == (h + 1) \div Half

Min(a, b) == IF a < b THEN a ELSE b

Take(s, n) == SubSeq(s, 1, Min(n, Len(s)))

RemoveAt(s, i) == SubSeq(s, 1, i - 1) \o SubSeq(s, i + 1, Len(s))

(* The WhiteSpace and LineTerminator code points of ECMAScript, which
   String.prototype.trim strips.  A character that has no escape in a
   string of this module is written by its code point. *)

WhiteSpace ==
    { "\t", "U+000B", "\f", " ", "U+00A0", "U+FEFF",
      "U+1680", "U+2000", "U+2001", "U+2002", "U+2003", "U+2004", "U+2005",
      "U+2006", "U+2007", "U+2008", "U+2009", "U+200A", "U+202F", "U+205F",
      "U+3000" }

LineTerminator == { "\n", "\r", "U+2028", "U+2029" }

IsSpace(c) == c \in WhiteSpace \cup LineTerminator

RECURSIVE TrimStart(_)
TrimStart(s) ==
    IF s = << >> THEN << >>
    ELSE IF IsSpace(Head(s)) THEN TrimStart(Tail(s)) ELSE s

RECURSIVE TrimEnd(_)
TrimEnd(s) ==
    IF s = << >> THEN << >>
    ELSE IF IsSpace(s[Len(s)]) THEN TrimEnd(SubSeq(s, 1, Len(s) - 1)) ELSE s

(* trim() forgetting the end of the string *)

Trim_startOnly(s) == TrimStart(s)

(* String.prototype.trim *)

Trim(s) == TrimEnd(TrimStart(s))

InFlight ==
    Len(exports) + Len(opens) + Len(inbox) + Len(pipelines) + Len(shots) + Len(submits)

CanSpawn == InFlight < MaxInFlight

CanCommit == nextId <= MaxCommits

(* What a running listener holds of the session object it read from
   sessionRef.current: the fields that tell one session from another, the
   notes left out *)

Held(s) ==
    IF s = NoSession
    THEN NoSession
    ELSE [testerName |-> s.testerName, charter |-> s.charter, startedAt |-> s.startedAt]

(* StartSessionModal as mounted: its useState defaults, and the effect that
   loads the saved tester name when it is not blank.  saved is the
   localStorage item rapidReporter.testerName, empty when there is none. *)

MountedModal(saved) ==
    [testerName |-> IF Len(Trim(saved)) > 0 THEN saved ELSE << >>,
     charter |-> << >>,
     durationMinutes |-> 60,
     saved |-> saved]

(* The fields and the saved name as they are left by the tester who typed
   the name Del and the charter chr and clicked Start: the session every
   specification that begins with a session begins with *)

StartedModal ==
    [testerName |-> <<"D", "e", "l">>,
     charter |-> <<"c", "h", "r">>,
     durationMinutes |-> 60,
     saved |-> <<"D", "e", "l">>]

NewNote(t, ty, tx) == [id |-> nextId, timestamp |-> t, type |-> ty, text |-> tx]

(* A call of a component that is no longer mounted finds nothing to act on:
   a state setter of an unmounted InstrumentPanel does nothing, and a handler
   of a closed overlay window does not go on *)

Mounted(c) == c.mounted

Unmount(calls) == [k \in 1..Len(calls) |-> [calls[k] EXCEPT !.mounted = FALSE]]

Did(op, path) == [op |-> op, path |-> path, at |-> ""]

(* One run of App's listener effect: where its async function stands, the
   disposed flag of its closure, and whether unlistenFn has been assigned *)

Effect(pc, disposed, unlistenFn) ==
    [pc |-> pc, disposed |-> disposed, unlistenFn |-> unlistenFn]

ListeningEffect == Effect("done", FALSE, TRUE)

(* A handler registered by win.listen: its event and the effect run that
   registered it *)

Listener(event, k) == [event |-> event, effect |-> k]

Registered(k) ==
    { Listener("region-selected", k), Listener("region-overlay-closed", k) }

ListenersOf(event) == { l \in listeners : l.event = event }

(* An event emitted to the main window is handed to every handler
   registered for it *)

Emit(ev) ==
    inbox \o [k \in 1..Cardinality(ListenersOf(ev.kind)) |-> ev]

-----------------------------------------------------------------------------
(* Initial state: the main window is mounted, no session, nothing in flight *)

Init ==
    /\ session = NoSession
    /\ recapOpen = FALSE
    /\ endConfirmOpen = FALSE
    /\ exportError = FALSE
    /\ isRegionCapturing = FALSE
    /\ noteType = "test"
    /\ text = << >>
    /\ isCapturing = FALSE
    /\ exports = << >>
    /\ opens = << >>
    /\ overlayOpen = FALSE
    /\ inbox = << >>
    /\ pipelines = << >>
    /\ shots = << >>
    /\ platform \in Platforms
    /\ nextId = 1
    /\ now = 0
    /\ overlay = MountedOverlay
    /\ submits = << >>
    /\ modal = MountedModal(<< >>)
    /\ effects = << ListeningEffect >>
    /\ listeners = Registered(1)
    /\ sessionRef = session
    /\ last = Did("init", NoPath)

-----------------------------------------------------------------------------
(* Variants of handleCommit with a plausible slip: the slice forgotten, the
   note added at the wrong end, the rest of the session not carried over *)

handleCommit_noSlice(prev, note) ==
    IF prev = NoSession
    THEN prev
    ELSE [prev EXCEPT !.notes = <<note>> \o prev.notes]

handleCommit_append(prev, note) ==
    IF prev = NoSession
    THEN prev
    ELSE [prev EXCEPT !.notes = Take(prev.notes \o <<note>>, NOTE_CAP)]

handleCommit_noSpread(prev, note) ==
    IF prev = NoSession
    THEN prev
    ELSE [prev EXCEPT !.notes = Take(<<note>> \o prev.notes, NOTE_CAP),
                      !.charter = << >>]

(* App.handleCommit: prepend, then keep the first NOTE_CAP entries *)

handleCommit(prev, note) ==
    IF prev = NoSession
    THEN prev
    ELSE [prev EXCEPT !.notes = Take(<<note>> \o prev.notes, NOTE_CAP)]

(* canStart without the trimming *)

canStart_untrimmed(testerName, charter) ==
    Len(testerName) >= 2 /\ Len(charter) >= 3

(* StartSessionModal.canStart *)

canStart(testerName, charter) ==
    Len(Trim(testerName)) >= 2 /\ Len(Trim(charter)) >= 3

(* The fields of StartSessionModal: the tester name is saved as it is typed *)

SetTesterName(v) ==
    /\ session = NoSession
    /\ modal' = [modal EXCEPT !.testerName = v, !.saved = v]
    /\ last' = Did("modal-name", NoPath)
    /\ UNCHANGED << session, recapOpen, endConfirmOpen, exportError, isRegionCapturing,
                    noteType, text, isCapturing, exports, opens, overlayOpen, inbox,
                    pipelines, shots, platform, nextId, now, overlay, submits,
                    effects, listeners, sessionRef >>

SetCharter(v) ==
    /\ session = NoSession
    /\ modal' = [modal EXCEPT !.charter = v]
    /\ last' = Did("modal-charter", NoPath)
    /\ UNCHANGED << session, recapOpen, endConfirmOpen, exportError, isRegionCapturing,
                    noteType, text, isCapturing, exports, opens, overlayOpen, inbox,
                    pipelines, shots, platform, nextId, now, overlay, submits,
                    effects, listeners, sessionRef >>

SetDurationMinutes(d) ==
    /\ session = NoSession
    /\ d \in Durations
    /\ modal' = [modal EXCEPT !.durationMinutes = d]
    /\ last' = Did("modal-duration", NoPath)
    /\ UNCHANGED << session, recapOpen, endConfirmOpen, exportError, isRegionCapturing,
                    noteType, text, isCapturing, exports, opens, overlayOpen, inbox,
                    pipelines, shots, platform, nextId, now, overlay, submits,
                    effects, listeners, sessionRef >>

(* The Clear button *)

ClearModal ==
    /\ session = NoSession
    /\ modal' = MountedModal(<< >>)
    /\ last' = Did("modal-clear", NoPath)
    /\ UNCHANGED << session, recapOpen, endConfirmOpen, exportError, isRegionCapturing,
                    noteType, text, isCapturing, exports, opens, overlayOpen, inbox,
                    pipelines, shots, platform, nextId, now, overlay, submits,
                    effects, listeners, sessionRef >>

(* The Start button of StartSessionModal and App's onStart.  The modal is
   rendered only while there is no session; starting mounts a new
   InstrumentPanel, whose state starts from its useState defaults. *)

OnStart(testerName, charter, durationMinutes) ==
    /\ session = NoSession
    /\ canStart(testerName, charter)
    /\ session' = [testerName |-> Trim(testerName),
                   charter |-> Trim(charter),
                   durationMinutes |-> durationMinutes,
                   startedAt |-> now,
                   notes |-> << >>]
    /\ sessionRef' = session'
    /\ recapOpen' = FALSE
    /\ noteType' = "test"
    /\ text' = << >>
    /\ isCapturing' = FALSE
    /\ last' = Did("start", NoPath)
    /\ UNCHANGED << endConfirmOpen, exportError, isRegionCapturing, exports, opens,
                    overlayOpen, inbox, pipelines, shots, platform, nextId, now,
                    overlay, submits, modal,
                    effects, listeners >>

(* Time passes: Date.now() is read from a clock that never goes back *)

Tick ==
    /\ now < MaxTime
    /\ now' = now + 1
    /\ last' = Did("tick", NoPath)
    /\ UNCHANGED << session, recapOpen, endConfirmOpen, exportError, isRegionCapturing,
                    noteType, text, isCapturing, exports, opens, overlayOpen, inbox,
                    pipelines, shots, platform, nextId,
                    overlay, submits, modal,
                    effects, listeners, sessionRef >>

(* The effect that follows a render in which session changed: it copies
   the session into sessionRef.  A session set by the continuation of an
   awaited call is rendered later, in a task of its own, and until this
   effect has run sessionRef.current is the session of the render before. *)

SessionRefEffect ==
    /\ sessionRef # session
    /\ sessionRef' = session
    /\ last' = Did("session-ref", NoPath)
    /\ UNCHANGED << session, recapOpen, endConfirmOpen, exportError, isRegionCapturing,
                    noteType, text, isCapturing, exports, opens, overlayOpen, inbox,
                    pipelines, shots, platform, nextId, now, overlay, submits, modal,
                    effects, listeners >>

(* InstrumentPanel textarea onChange *)

OnChangeText(t) ==
    /\ session # NoSession
    /\ text' = t
    /\ last' = Did("type", NoPath)
    /\ UNCHANGED << session, recapOpen, endConfirmOpen, exportError, isRegionCapturing,
                    noteType, isCapturing, exports, opens, overlayOpen, inbox,
                    pipelines, shots, platform, nextId, now,
                    overlay, submits, modal,
                    effects, listeners, sessionRef >>

(* InstrumentPanel.commit, run by Enter in the textarea.  The update of a
   keyboard or mouse event is rendered, and the effects of that render are
   run, before the event is over: sessionRef follows in the same step. *)

PanelCommit ==
    /\ session # NoSession
    /\ LET trimmed == Trim(text) IN
       IF trimmed = << >>
       THEN /\ last' = Did("enter-empty", NoPath)
            /\ UNCHANGED << session, text, nextId, sessionRef >>
       ELSE /\ CanCommit
            /\ session' = handleCommit(session, NewNote(now, noteType, trimmed))
            /\ nextId' = nextId + 1
            /\ text' = << >>
            /\ sessionRef' = session'
            /\ last' = Did("commit", NoPath)
    /\ UNCHANGED << recapOpen, endConfirmOpen, exportError, isRegionCapturing, noteType,
                    isCapturing, exports, opens, overlayOpen, inbox, pipelines,
                    shots, platform, now,
                    overlay, submits, modal,
                    effects, listeners >>

(* NOTE_TYPE_ORDER with every member of NoteType, screenshot included *)

NOTE_TYPE_ORDER_withScreenshot ==
    << "test", "bug", "idea", "observation", "warning", "question", "snippet",
       "screenshot" >>

(* InstrumentPanel.NOTE_TYPE_ORDER *)

NOTE_TYPE_ORDER ==
    << "test", "bug", "idea", "observation", "warning", "question", "snippet" >>

(* Array.prototype.indexOf, counted from 0, -1 when absent *)

indexOf(order, t) ==
    IF \E k \in 1..Len(order) : order[k] = t
    THEN (CHOOSE k \in 1..Len(order) :
              /\ order[k] = t
              /\ \A m \in 1..(k - 1) : order[m] # t) - 1
    ELSE -1

cycle_noWrap(delta) ==
    LET i == indexOf(NOTE_TYPE_ORDER, noteType)
        n == Max(0, Min(i + delta, Len(NOTE_TYPE_ORDER) - 1))
    IN NOTE_TYPE_ORDER[n + 1]

(* InstrumentPanel.cycle: the note type setNoteType receives *)

cycle(delta) ==
    LET i == indexOf(NOTE_TYPE_ORDER, noteType)
        n == (i + delta + Len(NOTE_TYPE_ORDER)) % Len(NOTE_TYPE_ORDER)
    IN NOTE_TYPE_ORDER[n + 1]

(* keyboard events the textarea receives *)

KeyEvent(key, shiftKey, altKey, metaKey, ctrlKey) ==
    [key |-> key, shiftKey |-> shiftKey, altKey |-> altKey,
     metaKey |-> metaKey, ctrlKey |-> ctrlKey]

Keys == { "Enter", "ArrowUp", "ArrowDown", "1", "2", "3", "4", "5", "6", "7", "a" }

Modifiers ==
    { << FALSE, FALSE, FALSE, FALSE >>, << TRUE, FALSE, FALSE, FALSE >>,
      << FALSE, TRUE, FALSE, FALSE >>, << FALSE, FALSE, TRUE, FALSE >>,
      << FALSE, FALSE, FALSE, TRUE >>, << TRUE, TRUE, FALSE, FALSE >> }

KeyEvents ==
    { KeyEvent(k, m[1], m[2], m[3], m[4]) : k \in Keys, m \in Modifiers }

(* the quick picks of the textarea's onKeyDown, Alt+1 .. Alt+6 *)

QuickPick ==
    [ k \in {"1", "2", "3", "4", "5", "6"} |->
        CASE k = "1" -> "test"
          [] k = "2" -> "bug"
          [] k = "3" -> "idea"
          [] k = "4" -> "observation"
          [] k = "5" -> "warning"
          [] k = "6" -> "question" ]

(* InstrumentPanel textarea onKeyDown *)

OnKeyDown(e) ==
    /\ session # NoSession
    /\ IF e.metaKey \/ e.ctrlKey
       THEN /\ last' = Did("key-os-shortcut", NoPath)
            /\ UNCHANGED << session, noteType, text, nextId, sessionRef >>
       ELSE IF e.key = "Enter"
       THEN IF e.shiftKey
            THEN /\ last' = Did("key-newline", NoPath)
                 /\ UNCHANGED << session, noteType, text, nextId, sessionRef >>
            ELSE PanelCommit
       ELSE IF e.key = "ArrowUp"
       THEN /\ noteType' = cycle(-1)
            /\ last' = Did("arrow-up", NoPath)
            /\ UNCHANGED << session, text, nextId, sessionRef >>
       ELSE IF e.key = "ArrowDown"
       THEN /\ noteType' = cycle(1)
            /\ last' = Did("arrow-down", NoPath)
            /\ UNCHANGED << session, text, nextId, sessionRef >>
       ELSE IF e.altKey /\ e.key \in DOMAIN QuickPick
       THEN /\ noteType' = QuickPick[e.key]
            /\ last' = Did("quick-pick", NoPath)
            /\ UNCHANGED << session, text, nextId, sessionRef >>
       ELSE /\ last' = Did("key-other", NoPath)
            /\ UNCHANGED << session, noteType, text, nextId, sessionRef >>
    /\ UNCHANGED << recapOpen, endConfirmOpen, exportError, isRegionCapturing,
                    isCapturing, exports, opens, overlayOpen, inbox, pipelines,
                    shots, platform, now,
                    overlay, submits, modal,
                    effects, listeners >>

(* onToggleRecap *)

ToggleRecap ==
    /\ session # NoSession
    /\ recapOpen' = ~recapOpen
    /\ last' = Did("recap", NoPath)
    /\ UNCHANGED << session, endConfirmOpen, exportError, isRegionCapturing, noteType,
                    text, isCapturing, exports, opens, overlayOpen, inbox,
                    pipelines, shots, platform, nextId, now,
                    overlay, submits, modal,
                    effects, listeners, sessionRef >>

-----------------------------------------------------------------------------
(* End of session and export *)

(* App.requestEndSession, the panel's End session button *)

requestEndSession ==
    /\ session # NoSession
    /\ exportError' = FALSE
    /\ endConfirmOpen' = TRUE
    /\ last' = Did("request-end", NoPath)
    /\ UNCHANGED << session, recapOpen, isRegionCapturing, noteType, text, isCapturing,
                    exports, opens, overlayOpen, inbox, pipelines, shots,
                    platform, nextId, now,
                    overlay, submits, modal,
                    effects, listeners, sessionRef >>

(* The dialog is rendered when endConfirmOpen && session *)

EndDialogShown == endConfirmOpen /\ session # NoSession

(* CancelEndSession wired to the export: the Cancel button starting
   performEndSession *)

CancelEndSession_exports ==
    /\ EndDialogShown
    /\ CanSpawn
    /\ endConfirmOpen' = FALSE
    /\ exports' = Append(exports, session)
    /\ last' = Did("cancel-end", NoPath)
    /\ UNCHANGED << session, recapOpen, exportError, isRegionCapturing, noteType, text,
                    isCapturing, opens, overlayOpen, inbox, pipelines,
                    shots, platform, nextId, now,
                    overlay, submits, modal,
                    effects, listeners, sessionRef >>

(* Cancel button and backdrop of the dialog *)

CancelEndSession ==
    /\ EndDialogShown
    /\ endConfirmOpen' = FALSE
    /\ last' = Did("cancel-end", NoPath)
    /\ UNCHANGED << session, recapOpen, exportError, isRegionCapturing, noteType, text,
                    isCapturing, exports, opens, overlayOpen, inbox, pipelines,
                    shots, platform, nextId, now,
                    overlay, submits, modal,
                    effects, listeners, sessionRef >>

(* App.performEndSession up to its await: the End & Export button.  The
   session of the render that drew the button is what is sent. *)

performEndSession ==
    /\ EndDialogShown
    /\ CanSpawn
    /\ exports' = Append(exports, session)
    /\ last' = Did("export-start", NoPath)
    /\ UNCHANGED << session, recapOpen, endConfirmOpen, exportError, isRegionCapturing,
                    noteType, text, isCapturing, opens, overlayOpen, inbox,
                    pipelines, shots, platform, nextId, now,
                    overlay, submits, modal,
                    effects, listeners, sessionRef >>

(* ExportResolved without setRecapOpen(false) *)

ExportResolved_keepsRecap(i) ==
    /\ i \in 1..Len(exports)
    /\ exports' = RemoveAt(exports, i)
    /\ endConfirmOpen' = FALSE
    /\ isRegionCapturing' = FALSE
    /\ session' = NoSession
    /\ shots' = Unmount(shots)
    /\ modal' = IF session # NoSession THEN MountedModal(modal.saved) ELSE modal
    /\ last' = [op |-> "export-ok", path |-> NoPath, at |-> IF recapOpen THEN "recap" ELSE ""]
    /\ UNCHANGED << exportError, recapOpen, noteType, text, isCapturing, opens,
                    overlayOpen, inbox, pipelines, platform, nextId, now,
                    overlay, submits,
                    effects, listeners, sessionRef >>

(* export_session_markdown resolved: reset the UI back to start *)

ExportResolved(i) ==
    /\ i \in 1..Len(exports)
    /\ exports' = RemoveAt(exports, i)
    /\ endConfirmOpen' = FALSE
    /\ recapOpen' = FALSE
    /\ isRegionCapturing' = FALSE
    /\ session' = NoSession
    /\ shots' = Unmount(shots)
    /\ modal' = IF session # NoSession THEN MountedModal(modal.saved) ELSE modal
    /\ last' = [op |-> "export-ok", path |-> NoPath, at |-> IF recapOpen THEN "recap" ELSE ""]
    /\ UNCHANGED << exportError, noteType, text, isCapturing, opens, overlayOpen,
                    inbox, pipelines, platform, nextId, now,
                    overlay, submits,
                    effects, listeners, sessionRef >>

(* export_session_markdown rejected: the catch block *)

ExportRejected(i) ==
    /\ i \in 1..Len(exports)
    /\ exports' = RemoveAt(exports, i)
    /\ exportError' = TRUE
    /\ endConfirmOpen' = FALSE
    /\ last' = Did("export-failed", NoPath)
    /\ UNCHANGED << session, recapOpen, isRegionCapturing, noteType, text, isCapturing,
                    opens, overlayOpen, inbox, pipelines, shots, platform,
                    nextId, now,
                    overlay, submits, modal,
                    effects, listeners, sessionRef >>

-----------------------------------------------------------------------------
(* Region capture: the main window's side *)

(* The guards of InstrumentPanel.openRegionCapture (isCapturing ||
   isRegionCapturing) and of App.openRegionCapture (isRegionCapturing) *)

RegionCaptureRefused == isCapturing \/ isRegionCapturing

(* The Region button: InstrumentPanel.openRegionCapture, then
   App.openRegionCapture up to its first await (platform_os) *)

openRegionCapture ==
    /\ session # NoSession
    /\ IF RegionCaptureRefused
       THEN /\ last' = Did("region-refused", NoPath)
            /\ UNCHANGED << isRegionCapturing, opens >>
       ELSE /\ CanSpawn
            /\ isRegionCapturing' = TRUE
            /\ opens' = Append(opens, [pc |-> "platform", snipPath |-> NoPath])
            /\ last' = Did("region-open", NoPath)
    /\ UNCHANGED << session, recapOpen, endConfirmOpen, exportError, noteType, text,
                    isCapturing, exports, overlayOpen, inbox, pipelines, shots,
                    platform, nextId, now,
                    overlay, submits, modal,
                    effects, listeners, sessionRef >>

(* platform_os settled: answer "" when it rejected.  On windows the handler
   goes on to await setAlwaysOnTop(false); elsewhere it invokes
   open_region_overlay. *)

PlatformSettled(i, answer) ==
    /\ i \in 1..Len(opens)
    /\ opens[i].pc = "platform"
    /\ answer \in {platform, ""}
    /\ opens' = [opens EXCEPT ![i].pc = IF answer = "windows" THEN "lower" ELSE "overlay"]
    /\ last' = Did("platform", NoPath)
    /\ UNCHANGED << session, recapOpen, endConfirmOpen, exportError, isRegionCapturing,
                    noteType, text, isCapturing, exports, overlayOpen, inbox,
                    pipelines, shots, platform, nextId, now,
                    overlay, submits, modal,
                    effects, listeners, sessionRef >>

(* setAlwaysOnTop(false).catch(...) settled, either way: the 120 ms timer is
   started and awaited *)

AlwaysOnTopLowered(i) ==
    /\ i \in 1..Len(opens)
    /\ opens[i].pc = "lower"
    /\ opens' = [opens EXCEPT ![i].pc = "timer"]
    /\ last' = Did("snip-lowered", NoPath)
    /\ UNCHANGED << session, recapOpen, endConfirmOpen, exportError, isRegionCapturing,
                    noteType, text, isCapturing, exports, overlayOpen, inbox,
                    pipelines, shots, platform, nextId, now,
                    overlay, submits, modal,
                    effects, listeners, sessionRef >>

(* The 120 ms timer fired: capture_windows_snip_to_file is invoked *)

SnipTimerFired(i) ==
    /\ i \in 1..Len(opens)
    /\ opens[i].pc = "timer"
    /\ opens' = [opens EXCEPT ![i].pc = "snip"]
    /\ last' = Did("snip-invoked", NoPath)
    /\ UNCHANGED << session, recapOpen, endConfirmOpen, exportError, isRegionCapturing,
                    noteType, text, isCapturing, exports, overlayOpen, inbox,
                    pipelines, shots, platform, nextId, now,
                    overlay, submits, modal,
                    effects, listeners, sessionRef >>

(* SnipResolved asking only for a session before it commits *)

SnipResolved_commitsNull(i, snipPath) ==
    /\ i \in 1..Len(opens)
    /\ opens[i].pc = "snip"
    /\ IF sessionRef # NoSession
       THEN /\ CanCommit
            /\ session' = handleCommit(session, NewNote(now, "screenshot", snipPath))
            /\ nextId' = nextId + 1
            /\ last' = Did(IF snipPath = NoPath THEN "snip-none" ELSE "snip-commit", snipPath)
       ELSE /\ last' = Did(IF snipPath = NoPath THEN "snip-none" ELSE "snip-dropped", snipPath)
            /\ UNCHANGED << session, nextId >>
    /\ opens' = [opens EXCEPT ![i].pc = "restore", ![i].snipPath = snipPath]
    /\ UNCHANGED << recapOpen, endConfirmOpen, exportError, isRegionCapturing, noteType,
                    text, isCapturing, exports, overlayOpen, inbox, pipelines,
                    shots, platform, now, overlay, submits, modal,
                    effects, listeners, sessionRef >>

(* capture_windows_snip_to_file resolved with a path, or with null (NoPath)
   on timeout or cancel; then the finally block awaits setAlwaysOnTop(true) *)

SnipResolved(i, snipPath) ==
    /\ i \in 1..Len(opens)
    /\ opens[i].pc = "snip"
    /\ IF snipPath # NoPath /\ sessionRef # NoSession
       THEN /\ CanCommit
            /\ session' = handleCommit(session, NewNote(now, "screenshot", snipPath))
            /\ nextId' = nextId + 1
            /\ last' = Did("snip-commit", snipPath)
       ELSE /\ last' = Did(IF snipPath = NoPath THEN "snip-none" ELSE "snip-dropped", snipPath)
            /\ UNCHANGED << session, nextId >>
    /\ opens' = [opens EXCEPT ![i].pc = "restore", ![i].snipPath = snipPath]
    /\ UNCHANGED << recapOpen, endConfirmOpen, exportError, isRegionCapturing, noteType,
                    text, isCapturing, exports, overlayOpen, inbox, pipelines,
                    shots, platform, now,
                    overlay, submits, modal,
                    effects, listeners, sessionRef >>

(* capture_windows_snip_to_file rejected: the finally block runs first *)

SnipRejected(i) ==
    /\ i \in 1..Len(opens)
    /\ opens[i].pc = "snip"
    /\ opens' = [opens EXCEPT ![i].pc = "restore-thrown"]
    /\ last' = Did("snip-failed", NoPath)
    /\ UNCHANGED << session, recapOpen, endConfirmOpen, exportError, isRegionCapturing,
                    noteType, text, isCapturing, exports, overlayOpen, inbox,
                    pipelines, shots, platform, nextId, now,
                    overlay, submits, modal,
                    effects, listeners, sessionRef >>

(* setAlwaysOnTop(true).catch(...) settled: the rest of the finally block,
   and for a rejected snip the outer catch block *)

AlwaysOnTopRestored(i) ==
    /\ i \in 1..Len(opens)
    /\ opens[i].pc \in {"restore", "restore-thrown"}
    /\ isRegionCapturing' = FALSE
    /\ opens' = RemoveAt(opens, i)
    /\ last' = Did(IF opens[i].pc = "restore" THEN "snip-done" ELSE "snip-alert", NoPath)
    /\ UNCHANGED << session, recapOpen, endConfirmOpen, exportError, noteType, text,
                    isCapturing, exports, overlayOpen, inbox, pipelines, shots,
                    platform, nextId, now,
                    overlay, submits, modal,
                    effects, listeners, sessionRef >>

(* open_region_overlay resolved: the overlay window is on screen and
   RegionOverlay is mounted in it *)

OverlayOpened(i) ==
    /\ i \in 1..Len(opens)
    /\ opens[i].pc = "overlay"
    /\ overlayOpen' = TRUE
    /\ overlay' = MountedOverlay
    /\ opens' = RemoveAt(opens, i)
    /\ last' = Did("overlay-opened", NoPath)
    /\ UNCHANGED << session, recapOpen, endConfirmOpen, exportError, isRegionCapturing,
                    noteType, text, isCapturing, exports, inbox, pipelines, shots,
                    platform, nextId, now, submits, modal,
                    effects, listeners, sessionRef >>

(* open_region_overlay rejected: the catch block *)

OverlayOpenRejected(i) ==
    /\ i \in 1..Len(opens)
    /\ opens[i].pc = "overlay"
    /\ isRegionCapturing' = FALSE
    /\ opens' = RemoveAt(opens, i)
    /\ last' = Did("overlay-failed", NoPath)
    /\ UNCHANGED << session, recapOpen, endConfirmOpen, exportError, noteType, text,
                    isCapturing, exports, overlayOpen, inbox, pipelines, shots,
                    platform, nextId, now,
                    overlay, submits, modal,
                    effects, listeners, sessionRef >>

-----------------------------------------------------------------------------
(* The overlay window *)

(* The handlers of RegionOverlay.  Everything below is guarded by
   overlayOpen: a closed window takes no events.  The calls its handlers
   await are kept in submits, each with the place it stands at.  When the
   window closes the component is gone, and overlay is what the next window
   mounts with. *)

NoSelection == [x |-> 0, y |-> 0, width |-> 0, height |-> 0, devicePixelRatio |-> 0]

(* Escape: the keydown handler invokes close_region_overlay and awaits it;
   the overlay stays open and goes on taking events meanwhile *)

OverlayEscape ==
    /\ overlayOpen
    /\ CanSpawn
    /\ submits' = Append(submits, [pc |-> "escape", mounted |-> TRUE,
                                   selection |-> NoSelection])
    /\ last' = Did("overlay-escape", NoPath)
    /\ UNCHANGED << session, recapOpen, endConfirmOpen, exportError, isRegionCapturing,
                    noteType, text, isCapturing, exports, opens, overlayOpen, inbox,
                    pipelines, shots, platform, nextId, now, overlay, modal,
                    effects, listeners, sessionRef >>

(* close_region_overlay, invoked by Escape, settled.  When it resolved (ok)
   the command has closed the window and emitted region-overlay-closed, and
   the finally block finds no window left to close.  An invoke can reject,
   as the catch at line 492 expects of this command: the finally block then
   closes the window from JS, getCurrentWebviewWindow().close(), and the
   rejection goes unhandled.  A call whose window is gone has no
   continuation. *)

EscapeSettled(k, ok) ==
    /\ k \in 1..Len(submits)
    /\ submits[k].pc = "escape"
    /\ IF ok /\ overlayOpen
       THEN /\ overlayOpen' = FALSE
            /\ inbox' = Emit([kind |-> "region-overlay-closed"])
            /\ submits' = Unmount(RemoveAt(submits, k))
            /\ overlay' = MountedOverlay
       ELSE /\ submits' = IF Mounted(submits[k])
                          THEN [submits EXCEPT ![k].pc = "js-close"]
                          ELSE RemoveAt(submits, k)
            /\ UNCHANGED << overlayOpen, inbox, overlay >>
    /\ last' = Did(IF ok THEN "escape-ok" ELSE "escape-failed", NoPath)
    /\ UNCHANGED << session, recapOpen, endConfirmOpen, exportError, isRegionCapturing,
                    noteType, text, isCapturing, exports, opens, pipelines, shots,
                    platform, nextId, now, modal,
                    effects, listeners, sessionRef >>

(* getCurrentWebviewWindow().close().catch(...) settled: when it resolved the
   window is closed, and that is all Window.close() does: no
   region-overlay-closed, which only the command emits, reaches the main
   window.  A rejection is swallowed and the overlay stays open. *)

JsCloseSettled(k, ok) ==
    /\ k \in 1..Len(submits)
    /\ submits[k].pc = "js-close"
    /\ IF ok /\ overlayOpen
       THEN /\ overlayOpen' = FALSE
            /\ submits' = Unmount(RemoveAt(submits, k))
            /\ overlay' = MountedOverlay
       ELSE /\ submits' = RemoveAt(submits, k)
            /\ UNCHANGED << overlayOpen, overlay >>
    /\ last' = Did(IF ok THEN "js-close-ok" ELSE "js-close-failed", NoPath)
    /\ UNCHANGED << session, recapOpen, endConfirmOpen, exportError, isRegionCapturing,
                    noteType, text, isCapturing, exports, opens, inbox, pipelines,
                    shots, platform, nextId, now, modal,
                    effects, listeners, sessionRef >>

(* onPointerDown: a new drag with the primary button *)

OnPointerDown(e) ==
    /\ overlayOpen
    /\ IF e.button # 0
       THEN /\ last' = Did("pointer-down-ignored", NoPath)
            /\ UNCHANGED overlay
       ELSE /\ overlay' = [overlay EXCEPT !.submittedRef = FALSE,
                                          !.startRef = e,
                                          !.dragging = TRUE,
                                          !.sent = 0,
                                          !.lastUp = NoStart]
            /\ last' = Did("pointer-down", NoPath)
    /\ UNCHANGED << session, recapOpen, endConfirmOpen, exportError, isRegionCapturing,
                    noteType, text, isCapturing, exports, opens, overlayOpen, inbox,
                    pipelines, shots, platform, nextId, now, submits, modal,
                    effects, listeners, sessionRef >>

(* The first guard of onPointerUp: this gesture has submitted *)

AlreadySubmitted == overlay.submittedRef

(* The guards of onPointerUp asking for a drag's start only *)

UpIgnored_startOnly == overlay.startRef = NoStart

(* The guards of onPointerUp: the gesture has submitted, or no drag is on *)

UpIgnored == AlreadySubmitted \/ ~overlay.dragging \/ overlay.startRef = NoStart

(* The test for a tiny drag asking for both dimensions to be small *)

TinyDrag_both(width, height) == width < 5 * Half /\ height < 5 * Half

(* The test for a tiny drag: width and height are counted in halves *)

TinyDrag(width, height) == width < 5 * Half \/ height < 5 * Half

(* The drag from start to e in screen coordinates, as onPointerUp computes it *)

DragRect(start, e) ==
    LET x1 == Min(start.screenX, e.screenX)
        y1 == Min(start.screenY, e.screenY)
        x2 == Max(start.screenX, e.screenX)
        y2 == Max(start.screenY, e.screenY)
    IN  [x1 |-> x1, y1 |-> y1, width |-> Max(0, x2 - x1), height |-> Max(0, y2 - y1)]

(* The selection onPointerUp submits for a drag *)

SelectionOf(d) ==
    [x |-> Round(d.x1), y |-> Round(d.y1), width |-> Round(d.width),
     height |-> Round(d.height), devicePixelRatio |-> devicePixelRatio]

(* onPointerUp up to its await of submit_region_selection *)

OnPointerUp(e) ==
    /\ overlayOpen
    /\ IF UpIgnored
       THEN /\ last' = Did("pointer-up-ignored", NoPath)
            /\ UNCHANGED << overlay, submits >>
       ELSE LET d == DragRect(overlay.startRef, e) IN
            IF TinyDrag(d.width, d.height)
            THEN /\ overlay' = [overlay EXCEPT !.submittedRef = FALSE,
                                               !.dragging = FALSE,
                                               !.startRef = NoStart,
                                               !.lastUp = e,
                                               !.discarded = TRUE]
                 /\ last' = Did("drag-discarded", NoPath)
                 /\ UNCHANGED submits
            ELSE /\ CanSpawn
                 /\ overlay' = [overlay EXCEPT !.submittedRef = TRUE,
                                               !.dragging = FALSE,
                                               !.lastUp = e,
                                               !.sent = @ + 1]
                 /\ submits' = Append(submits, [pc |-> "submit", mounted |-> TRUE,
                                                selection |-> SelectionOf(d)])
                 /\ last' = Did("drag-submitted", NoPath)
    /\ UNCHANGED << session, recapOpen, endConfirmOpen, exportError, isRegionCapturing,
                    noteType, text, isCapturing, exports, opens, overlayOpen, inbox,
                    pipelines, shots, platform, nextId, now, modal,
                    effects, listeners, sessionRef >>

(* submit_region_selection resolved: the command has emitted the selection to
   the main window as region-selected and closed the overlay window, so the
   finally block of onPointerUp has no component left to act on *)

SubmitResolved(k) ==
    /\ k \in 1..Len(submits)
    /\ submits[k].pc = "submit"
    /\ inbox' = Emit([kind |-> "region-selected",
                       payload |-> submits[k].selection])
    /\ overlayOpen' = FALSE
    /\ overlay' = MountedOverlay
    /\ submits' = Unmount(RemoveAt(submits, k))
    /\ last' = Did("submit-ok", NoPath)
    /\ UNCHANGED << session, recapOpen, endConfirmOpen, exportError, isRegionCapturing,
                    noteType, text, isCapturing, exports, opens, pipelines, shots,
                    platform, nextId, now, modal,
                    effects, listeners, sessionRef >>

(* submit_region_selection rejected: the catch block re-arms the gesture and
   awaits close_region_overlay.  A call whose window is gone has no
   continuation. *)

SubmitRejected(k) ==
    /\ k \in 1..Len(submits)
    /\ submits[k].pc = "submit"
    /\ IF Mounted(submits[k])
       THEN /\ overlay' = [overlay EXCEPT !.submittedRef = FALSE]
            /\ submits' = [submits EXCEPT ![k].pc = "close"]
       ELSE /\ submits' = RemoveAt(submits, k)
            /\ UNCHANGED overlay
    /\ last' = Did("submit-failed", NoPath)
    /\ UNCHANGED << session, recapOpen, endConfirmOpen, exportError, isRegionCapturing,
                    noteType, text, isCapturing, exports, opens, overlayOpen, inbox,
                    pipelines, shots, platform, nextId, now, modal,
                    effects, listeners, sessionRef >>

(* close_region_overlay, invoked after a failed submission, settled: when it
   resolved (ok) the window is closed and region-overlay-closed emitted, as
   for Escape; when it rejected the rejection is swallowed and the finally
   block clears startRef of the overlay still open *)

CloseSettled(k, ok) ==
    /\ k \in 1..Len(submits)
    /\ submits[k].pc = "close"
    /\ IF ok /\ overlayOpen
       THEN /\ overlayOpen' = FALSE
            /\ inbox' = Emit([kind |-> "region-overlay-closed"])
            /\ submits' = Unmount(RemoveAt(submits, k))
            /\ overlay' = MountedOverlay
       ELSE /\ submits' = RemoveAt(submits, k)
            /\ overlay' = IF Mounted(submits[k])
                          THEN [overlay EXCEPT !.startRef = NoStart]
                          ELSE overlay
            /\ UNCHANGED << overlayOpen, inbox >>
    /\ last' = Did(IF ok THEN "close-ok" ELSE "close-failed", NoPath)
    /\ UNCHANGED << session, recapOpen, endConfirmOpen, exportError, isRegionCapturing,
                    noteType, text, isCapturing, exports, opens, pipelines, shots,
                    platform, nextId, now, modal,
                    effects, listeners, sessionRef >>

-----------------------------------------------------------------------------
(* The main window's listeners and the crop pipeline *)

(* App's listener effect runs (mount): its async function starts with
   win.listen("region-selected", ...).  The state of App outlives the run,
   as it does when React StrictMode runs, cleans up and re-runs the effects
   of a mounted component. *)

MountApp ==
    /\ Len(effects) < MaxMounts
    /\ \A k \in 1..Len(effects) : effects[k].disposed
    /\ effects' = Append(effects, Effect("listen-selected", FALSE, FALSE))
    /\ last' = Did("mount", NoPath)
    /\ UNCHANGED << session, recapOpen, endConfirmOpen, exportError, isRegionCapturing,
                    noteType, text, isCapturing, exports, opens, overlayOpen, inbox,
                    pipelines, shots, platform, nextId, now, overlay, submits, modal,
                    listeners, sessionRef >>

(* The cleanup of the effect (unmount): disposed = true; unlistenFn?.() *)

UnmountApp(k) ==
    /\ k \in 1..Len(effects)
    /\ ~effects[k].disposed
    /\ effects' = [effects EXCEPT ![k].disposed = TRUE]
    /\ listeners' = IF effects[k].unlistenFn
                    THEN listeners \ Registered(k)
                    ELSE listeners
    /\ last' = Did("unmount", NoPath)
    /\ UNCHANGED << session, recapOpen, endConfirmOpen, exportError, isRegionCapturing,
                    noteType, text, isCapturing, exports, opens, overlayOpen, inbox,
                    pipelines, shots, platform, nextId, now, overlay, submits, modal, sessionRef >>

(* win.listen("region-selected") resolved with fn: the handler is
   registered, and win.listen("region-overlay-closed") is awaited next *)

ListenSelectedResolved(k) ==
    /\ k \in 1..Len(effects)
    /\ effects[k].pc = "listen-selected"
    /\ listeners' = listeners \cup { Listener("region-selected", k) }
    /\ effects' = [effects EXCEPT ![k].pc = "listen-closed"]
    /\ last' = Did("listen-selected", NoPath)
    /\ UNCHANGED << session, recapOpen, endConfirmOpen, exportError, isRegionCapturing,
                    noteType, text, isCapturing, exports, opens, overlayOpen, inbox,
                    pipelines, shots, platform, nextId, now, overlay, submits, modal, sessionRef >>

(* win.listen("region-overlay-closed") resolved with fnClosed: when the
   effect was disposed meanwhile, fn() and return; otherwise unlistenFn is
   assigned *)

ListenClosedResolved(k) ==
    /\ k \in 1..Len(effects)
    /\ effects[k].pc = "listen-closed"
    /\ IF effects[k].disposed
       THEN /\ listeners' = (listeners \cup { Listener("region-overlay-closed", k) })
                               \ { Listener("region-selected", k) }
            /\ effects' = [effects EXCEPT ![k].pc = "done"]
       ELSE /\ listeners' = listeners \cup { Listener("region-overlay-closed", k) }
            /\ effects' = [effects EXCEPT ![k].pc = "done", ![k].unlistenFn = TRUE]
    /\ last' = Did("listen-closed", NoPath)
    /\ UNCHANGED << session, recapOpen, endConfirmOpen, exportError, isRegionCapturing,
                    noteType, text, isCapturing, exports, opens, overlayOpen, inbox,
                    pipelines, shots, platform, nextId, now, overlay, submits, modal, sessionRef >>

(* either win.listen rejected: the catch block logs, and nothing registered
   so far is unregistered *)

ListenRejected(k) ==
    /\ k \in 1..Len(effects)
    /\ effects[k].pc \in {"listen-selected", "listen-closed"}
    /\ effects' = [effects EXCEPT ![k].pc = "done"]
    /\ last' = Did("listen-failed", NoPath)
    /\ UNCHANGED << session, recapOpen, endConfirmOpen, exportError, isRegionCapturing,
                    noteType, text, isCapturing, exports, opens, overlayOpen, inbox,
                    pipelines, shots, platform, nextId, now, overlay, submits, modal,
                    listeners, sessionRef >>

(* Contains with the right and bottom edges counted in *)

Contains_closed(m, selection) ==
    LET mx == m.position.x
        my == m.position.y
        mw == m.size.width
        mh == m.size.height
    IN  /\ selection.x >= mx
        /\ selection.x <= mx + mw
        /\ selection.y >= my
        /\ selection.y <= my + mh

(* The test of pickMonitor's loop for one monitor *)

Contains(m, selection) ==
    LET mx == m.position.x
        my == m.position.y
        mw == m.size.width
        mh == m.size.height
    IN  /\ selection.x >= mx
        /\ selection.x < mx + mw
        /\ selection.y >= my
        /\ selection.y < my + mh

(* pickMonitor falling back to the last monitor of the list *)

pickMonitor_lastFallback(monitors, selection) ==
    LET hits == { i \in 1..Len(monitors) : Contains(monitors[i], selection) }
        k == IF hits = {} THEN Len(monitors) ELSE CHOOSE i \in hits : \A j \in hits : i <= j
    IN  [monitor |-> monitors[k],
         mx |-> monitors[k].position.x,
         my |-> monitors[k].position.y]

(* pickMonitor: the first monitor of the list that contains the selection's
   corner, else the first monitor of the list *)

pickMonitor(monitors, selection) ==
    LET hits == { i \in 1..Len(monitors) : Contains(monitors[i], selection) }
        k == IF hits = {} THEN 1 ELSE CHOOSE i \in hits : \A j \in hits : i <= j
    IN  [monitor |-> monitors[k],
         mx |-> monitors[k].position.x,
         my |-> monitors[k].position.y]

(* selectionForCrop left in global coordinates *)

selectionForCrop_global(selection, mx, my) == selection

(* selectionForCrop: the selection translated by the picked monitor's origin *)

selectionForCrop(selection, mx, my) ==
    [selection EXCEPT !.x = selection.x - mx, !.y = selection.y - my]

NoRect == [x |-> 0, y |-> 0, width |-> 0, height |-> 0, devicePixelRatio |-> 0]

(* The region-selected listener up to its first await
   (getScreenshotableMonitors) *)

OnRegionSelected ==
    /\ inbox # << >>
    /\ Head(inbox).kind = "region-selected"
    /\ inbox' = Tail(inbox)
    /\ isRegionCapturing' = FALSE
    /\ IF sessionRef = NoSession
       THEN /\ pipelines' = pipelines
            /\ last' = Did("selected-ignored", NoPath)
       ELSE /\ pipelines' = Append(pipelines,
                                   [pc |-> "monitors",
                                    selection |-> Head(inbox).payload,
                                    monitors |-> << >>,
                                    monitorId |-> 0,
                                    crop |-> NoRect,
                                    fullPath |-> NoPath,
                                    s |-> Held(sessionRef)])
            /\ last' = Did("selected", NoPath)
    /\ UNCHANGED << session, recapOpen, endConfirmOpen, exportError, noteType, text,
                    isCapturing, exports, opens, overlayOpen, shots, platform,
                    nextId, now,
                    overlay, submits, modal,
                    effects, listeners, sessionRef >>

(* The region-overlay-closed listener *)

OnRegionOverlayClosed ==
    /\ inbox # << >>
    /\ Head(inbox).kind = "region-overlay-closed"
    /\ inbox' = Tail(inbox)
    /\ isRegionCapturing' = FALSE
    /\ last' = Did("overlay-closed", NoPath)
    /\ UNCHANGED << session, recapOpen, endConfirmOpen, exportError, noteType, text,
                    isCapturing, exports, opens, overlayOpen, pipelines, shots,
                    platform, nextId, now,
                    overlay, submits, modal,
                    effects, listeners, sessionRef >>

(* getScreenshotableMonitors resolved: no monitors or no numeric id end the
   handler through its finally block; otherwise getMonitorScreenshot is
   requested for the picked monitor *)

MonitorsResolved(i, monitors) ==
    /\ i \in 1..Len(pipelines)
    /\ pipelines[i].pc = "monitors"
    /\ IF monitors = << >>
       THEN /\ pipelines' = RemoveAt(pipelines, i)
            /\ isRegionCapturing' = FALSE
            /\ last' = Did("no-monitors", NoPath)
       ELSE LET pick == pickMonitor(monitors, pipelines[i].selection) IN
            IF ~pick.monitor.idOk
            THEN /\ pipelines' = RemoveAt(pipelines, i)
                 /\ isRegionCapturing' = FALSE
                 /\ last' = Did("no-monitor-id", NoPath)
            ELSE /\ pipelines' =
                      [pipelines EXCEPT
                         ![i].pc = "screenshot",
                         ![i].monitors = monitors,
                         ![i].monitorId = pick.monitor.id,
                         ![i].crop = selectionForCrop(pipelines[i].selection,
                                                      pick.mx, pick.my)]
                 /\ isRegionCapturing' = isRegionCapturing
                 /\ last' = Did("monitor-picked", NoPath)
    /\ UNCHANGED << session, recapOpen, endConfirmOpen, exportError, noteType, text,
                    isCapturing, exports, opens, overlayOpen, inbox, shots,
                    platform, nextId, now,
                    overlay, submits, modal,
                    effects, listeners, sessionRef >>

(* getMonitorScreenshot resolved: crop_screenshot is invoked *)

ScreenshotResolved(i, fullPath) ==
    /\ i \in 1..Len(pipelines)
    /\ pipelines[i].pc = "screenshot"
    /\ pipelines' = [pipelines EXCEPT ![i].pc = "crop", ![i].fullPath = fullPath]
    /\ last' = Did("full-frame", fullPath)
    /\ UNCHANGED << session, recapOpen, endConfirmOpen, exportError, isRegionCapturing,
                    noteType, text, isCapturing, exports, opens, overlayOpen,
                    inbox, shots, platform, nextId, now,
                    overlay, submits, modal,
                    effects, listeners, sessionRef >>

(* CropResolved committing the full-frame path instead of the cropped one *)

CropResolved_fullPath(i, croppedPath) ==
    /\ i \in 1..Len(pipelines)
    /\ pipelines[i].pc = "crop"
    /\ CanCommit
    /\ session' = handleCommit(session, NewNote(now, "screenshot", pipelines[i].fullPath))
    /\ nextId' = nextId + 1
    /\ pipelines' = RemoveAt(pipelines, i)
    /\ isRegionCapturing' = FALSE
    /\ last' = Did("cropped", croppedPath)
    /\ UNCHANGED << recapOpen, endConfirmOpen, exportError, noteType, text, isCapturing,
                    exports, opens, overlayOpen, inbox, shots, platform, now,
                    overlay, submits, modal,
                    effects, listeners, sessionRef >>

(* crop_screenshot resolved: the screenshot note is committed, then the
   finally block *)

CropResolved(i, croppedPath) ==
    /\ i \in 1..Len(pipelines)
    /\ pipelines[i].pc = "crop"
    /\ CanCommit
    /\ session' = handleCommit(session, NewNote(now, "screenshot", croppedPath))
    /\ nextId' = nextId + 1
    /\ pipelines' = RemoveAt(pipelines, i)
    /\ isRegionCapturing' = FALSE
    /\ last' = Did("cropped", croppedPath)
    /\ UNCHANGED << recapOpen, endConfirmOpen, exportError, noteType, text, isCapturing,
                    exports, opens, overlayOpen, inbox, shots, platform, now,
                    overlay, submits, modal,
                    effects, listeners, sessionRef >>

(* PipelineRejected without the finally block *)

PipelineRejected_noFinally(i) ==
    /\ i \in 1..Len(pipelines)
    /\ pipelines' = RemoveAt(pipelines, i)
    /\ last' = [op |-> "pipeline-failed", path |-> NoPath, at |-> pipelines[i].pc]
    /\ UNCHANGED << session, recapOpen, endConfirmOpen, exportError, isRegionCapturing,
                    noteType, text, isCapturing, exports, opens, overlayOpen, inbox,
                    shots, platform, nextId, now,
                    overlay, submits, modal,
                    effects, listeners, sessionRef >>

(* Any awaited call of the pipeline rejected: the catch block, then the
   finally block *)

PipelineRejected(i) ==
    /\ i \in 1..Len(pipelines)
    /\ pipelines' = RemoveAt(pipelines, i)
    /\ isRegionCapturing' = FALSE
    /\ last' = [op |-> "pipeline-failed", path |-> NoPath, at |-> pipelines[i].pc]
    /\ UNCHANGED << session, recapOpen, endConfirmOpen, exportError, noteType, text,
                    isCapturing, exports, opens, overlayOpen, inbox, shots,
                    platform, nextId, now,
                    overlay, submits, modal,
                    effects, listeners, sessionRef >>

-----------------------------------------------------------------------------
(* Full-screen capture: InstrumentPanel.captureScreenshot *)

(* The finally block of captureScreenshot *)

ShotFinally(i) ==
    /\ shots' = RemoveAt(shots, i)
    /\ isCapturing' = IF Mounted(shots[i]) THEN FALSE ELSE isCapturing

(* The Screenshot button, up to the first checkScreenRecordingPermission *)

captureScreenshot ==
    /\ session # NoSession
    /\ ~isCapturing
    /\ CanSpawn
    /\ isCapturing' = TRUE
    /\ shots' = Append(shots, [pc |-> "check", mounted |-> TRUE, requested |-> FALSE,
                                  monitors |-> << >>, path |-> NoPath])
    /\ last' = Did("shot-start", NoPath)
    /\ UNCHANGED << session, recapOpen, endConfirmOpen, exportError, isRegionCapturing,
                    noteType, text, exports, opens, overlayOpen, inbox,
                    pipelines, platform, nextId, now,
                    overlay, submits, modal,
                    effects, listeners, sessionRef >>

(* The first permission check settled: "yes", "no" or "thrown".  Not
   authorized leads to requestScreenRecordingPermission; a throw is ignored. *)

PermissionChecked(i, answer) ==
    /\ i \in 1..Len(shots)
    /\ shots[i].pc = "check"
    /\ answer \in {"yes", "no", "thrown"}
    /\ shots' = [shots EXCEPT ![i].pc = IF answer = "no" THEN "request" ELSE "recheck",
                              ![i].requested = (answer = "no")]
    /\ last' = Did("permission-checked", NoPath)
    /\ UNCHANGED << session, recapOpen, endConfirmOpen, exportError, isRegionCapturing,
                    noteType, text, isCapturing, exports, opens, overlayOpen,
                    inbox, pipelines, platform, nextId, now,
                    overlay, submits, modal,
                    effects, listeners, sessionRef >>

(* requestScreenRecordingPermission settled, either way *)

PermissionRequested(i) ==
    /\ i \in 1..Len(shots)
    /\ shots[i].pc = "request"
    /\ shots' = [shots EXCEPT ![i].pc = "recheck"]
    /\ last' = Did("permission-requested", NoPath)
    /\ UNCHANGED << session, recapOpen, endConfirmOpen, exportError, isRegionCapturing,
                    noteType, text, isCapturing, exports, opens, overlayOpen,
                    inbox, pipelines, platform, nextId, now,
                    overlay, submits, modal,
                    effects, listeners, sessionRef >>

(* PermissionRechecked going on to the monitors without permission *)

PermissionRechecked_carriesOn(i, answer) ==
    /\ i \in 1..Len(shots)
    /\ shots[i].pc = "recheck"
    /\ answer \in {"yes", "no", "thrown"}
    /\ shots' = [shots EXCEPT ![i].pc = "monitors"]
    /\ isCapturing' = isCapturing
    /\ last' = IF answer = "no"
               THEN [op |-> "permission-missing", path |-> NoPath,
                     at |-> IF shots[i].requested THEN "requested" ELSE "unrequested"]
               ELSE Did("permission-ok", NoPath)
    /\ UNCHANGED << session, recapOpen, endConfirmOpen, exportError, isRegionCapturing,
                    noteType, text, exports, opens, overlayOpen, inbox,
                    pipelines, platform, nextId, now,
                    overlay, submits, modal,
                    effects, listeners, sessionRef >>

(* The second permission check settled: not authorized alerts and returns
   through the finally block; otherwise getScreenshotableMonitors is awaited *)

PermissionRechecked(i, answer) ==
    /\ i \in 1..Len(shots)
    /\ shots[i].pc = "recheck"
    /\ answer \in {"yes", "no", "thrown"}
    /\ IF answer = "no"
       THEN /\ ShotFinally(i)
            /\ last' = [op |-> "permission-missing", path |-> NoPath,
                        at |-> IF shots[i].requested THEN "requested" ELSE "unrequested"]
       ELSE /\ shots' = [shots EXCEPT ![i].pc = "monitors"]
            /\ isCapturing' = isCapturing
            /\ last' = Did("permission-ok", NoPath)
    /\ UNCHANGED << session, recapOpen, endConfirmOpen, exportError, isRegionCapturing,
                    noteType, text, exports, opens, overlayOpen, inbox,
                    pipelines, platform, nextId, now,
                    overlay, submits, modal,
                    effects, listeners, sessionRef >>

(* ShotMonitorsResolved asking only whether there is a first monitor *)

ShotMonitorsResolved_noIdCheck(i, monitors) ==
    /\ i \in 1..Len(shots)
    /\ shots[i].pc = "monitors"
    /\ IF monitors = << >>
       THEN /\ ShotFinally(i)
            /\ last' = Did("shot-no-monitor", NoPath)
       ELSE /\ shots' = [shots EXCEPT ![i].pc = "screenshot", ![i].monitors = monitors]
            /\ isCapturing' = isCapturing
            /\ last' = Did("shot-monitor", NoPath)
    /\ UNCHANGED << session, recapOpen, endConfirmOpen, exportError, isRegionCapturing,
                    noteType, text, exports, opens, overlayOpen, inbox,
                    pipelines, platform, nextId, now,
                    overlay, submits, modal,
                    effects, listeners, sessionRef >>

(* getScreenshotableMonitors resolved: the first monitor is used *)

ShotMonitorsResolved(i, monitors) ==
    /\ i \in 1..Len(shots)
    /\ shots[i].pc = "monitors"
    /\ IF monitors = << >> \/ ~monitors[1].idOk
       THEN /\ ShotFinally(i)
            /\ last' = Did("shot-no-monitor", NoPath)
       ELSE /\ shots' = [shots EXCEPT ![i].pc = "screenshot", ![i].monitors = monitors]
            /\ isCapturing' = isCapturing
            /\ last' = Did("shot-monitor", NoPath)
    /\ UNCHANGED << session, recapOpen, endConfirmOpen, exportError, isRegionCapturing,
                    noteType, text, exports, opens, overlayOpen, inbox,
                    pipelines, platform, nextId, now,
                    overlay, submits, modal,
                    effects, listeners, sessionRef >>

(* getMonitorScreenshot resolved: unique_screenshot_copy is invoked *)

ShotScreenshotResolved(i, path) ==
    /\ i \in 1..Len(shots)
    /\ shots[i].pc = "screenshot"
    /\ shots' = [shots EXCEPT ![i].pc = "copy", ![i].path = path]
    /\ last' = Did("shot-frame", path)
    /\ UNCHANGED << session, recapOpen, endConfirmOpen, exportError, isRegionCapturing,
                    noteType, text, isCapturing, exports, opens, overlayOpen,
                    inbox, pipelines, platform, nextId, now,
                    overlay, submits, modal,
                    effects, listeners, sessionRef >>

(* ShotCopySettled treating a failed copy as a failed capture *)

ShotCopySettled_dropsOnFailure(i, copy) ==
    /\ i \in 1..Len(shots)
    /\ shots[i].pc = "copy"
    /\ CanCommit
    /\ IF copy = NoPath
       THEN /\ last' = Did("shot-original", shots[i].path)
            /\ UNCHANGED << session, nextId >>
       ELSE /\ session' = handleCommit(session, NewNote(now, "screenshot", copy))
            /\ nextId' = nextId + 1
            /\ last' = Did("shot-copied", copy)
    /\ ShotFinally(i)
    /\ UNCHANGED << recapOpen, endConfirmOpen, exportError, isRegionCapturing, noteType,
                    text, exports, opens, overlayOpen, inbox, pipelines,
                    platform, now,
                    overlay, submits, modal,
                    effects, listeners, sessionRef >>

(* unique_screenshot_copy settled: copy is the new path, or NoPath when it
   rejected and the original path is used; the note is committed, then the
   finally block *)

ShotCopySettled(i, copy) ==
    /\ i \in 1..Len(shots)
    /\ shots[i].pc = "copy"
    /\ CanCommit
    /\ LET finalPath == IF copy = NoPath THEN shots[i].path ELSE copy IN
       /\ session' = handleCommit(session, NewNote(now, "screenshot", finalPath))
       /\ last' = Did(IF copy = NoPath THEN "shot-original" ELSE "shot-copied", finalPath)
    /\ nextId' = nextId + 1
    /\ ShotFinally(i)
    /\ UNCHANGED << recapOpen, endConfirmOpen, exportError, isRegionCapturing, noteType,
                    text, exports, opens, overlayOpen, inbox, pipelines,
                    platform, now,
                    overlay, submits, modal,
                    effects, listeners, sessionRef >>

(* getScreenshotableMonitors or getMonitorScreenshot rejected: the catch
   block, then the finally block *)

ShotRejected(i) ==
    /\ i \in 1..Len(shots)
    /\ shots[i].pc \in {"monitors", "screenshot"}
    /\ ShotFinally(i)
    /\ last' = [op |-> "shot-failed", path |-> NoPath, at |-> shots[i].pc]
    /\ UNCHANGED << session, recapOpen, endConfirmOpen, exportError, isRegionCapturing,
                    noteType, text, exports, opens, overlayOpen, inbox,
                    pipelines, platform, nextId, now,
                    overlay, submits, modal,
                    effects, listeners, sessionRef >>

(* The Start button, clicked with the fields as they stand *)

StartClicked == OnStart(modal.testerName, modal.charter, modal.durationMinutes)

-----------------------------------------------------------------------------
(* The handlers, by component *)

EscapeSettles == \E k \in 1..MaxInFlight, ok \in BOOLEAN : EscapeSettled(k, ok)

JsCloseSettles == \E k \in 1..MaxInFlight, ok \in BOOLEAN : JsCloseSettled(k, ok)

(* The pointer events of a drag across a selection of Selections, in halves
   of a unit *)

SelectingDowns ==
    { PointerEvent(0, s.x * Half, s.y * Half) : s \in Selections }

SelectingUps ==
    { PointerEvent(0, (s.x + s.width) * Half, (s.y + s.height) * Half) : s \in Selections }

(* A drag in the overlay and the submission it invokes resolving, for a
   user who waits for what the overlay has invoked before the next drag *)

Gesture ==
    \/ submits = << >> /\ \E e \in SelectingDowns : OnPointerDown(e)
    \/ \E e \in SelectingUps : OnPointerUp(e)
    \/ \E k \in 1..MaxInFlight : SubmitResolved(k)

(* Escape in the overlay and the close it invokes resolving, for the same
   user *)

Cancel ==
    \/ submits = << >> /\ OverlayEscape
    \/ \E k \in 1..MaxInFlight : EscapeSettled(k, TRUE)

SessionActions ==
    \/ \E n \in Names : SetTesterName(n)
    \/ \E c \in Charters : SetCharter(c)
    \/ StartClicked
    \/ requestEndSession
    \/ CancelEndSession
    \/ performEndSession
    \/ \E i \in 1..MaxInFlight : ExportResolved(i)
    \/ \E i \in 1..MaxInFlight : ExportRejected(i)

TypingActions ==
    \/ \E t \in Texts : OnChangeText(t)
    \/ PanelCommit

RegionSteps ==
    \/ \E i \in 1..MaxInFlight, a \in Platforms \cup {""} : PlatformSettled(i, a)
    \/ \E i \in 1..MaxInFlight : OverlayOpened(i)
    \/ \E i \in 1..MaxInFlight : OverlayOpenRejected(i)
    \/ Gesture
    \/ Cancel
    \/ OnRegionSelected
    \/ OnRegionOverlayClosed
    \/ \E i \in 1..MaxInFlight, m \in MonitorLists : MonitorsResolved(i, m)
    \/ \E i \in 1..MaxInFlight, p \in Paths : ScreenshotResolved(i, p)
    \/ \E i \in 1..MaxInFlight, p \in Paths : CropResolved(i, p)
    \/ \E i \in 1..MaxInFlight : PipelineRejected(i)

(* One drag, one monitor layout and one path, and the calls that settle,
   by what awaits them *)

LiveDowns == { PointerEvent(0, 20, 20) }

LiveUps == { PointerEvent(0, 26, 24), PointerEvent(0, 31, 80) }

LiveMonitorLists ==
    { << >>, << Monitor(1, TRUE, 0, 0, 100, 100), Monitor(2, TRUE, 100, 0, 200, 200) >> }

LivePaths == { <<"/", "p">> }

PlatformSettles ==
    \E i \in 1..MaxInFlight, a \in Platforms \cup {""} : PlatformSettled(i, a)

OverlayOpenSettles ==
    \E i \in 1..MaxInFlight : OverlayOpened(i) \/ OverlayOpenRejected(i)

SnipSettles ==
    \E i \in 1..MaxInFlight :
        \/ AlwaysOnTopLowered(i)
        \/ SnipTimerFired(i)
        \/ \E p \in LivePaths \cup {NoPath} : SnipResolved(i, p)
        \/ SnipRejected(i)

AlwaysOnTopSettles == \E i \in 1..MaxInFlight : AlwaysOnTopRestored(i)

SubmitSettles == \E k \in 1..MaxInFlight : SubmitResolved(k) \/ SubmitRejected(k)

CloseSettles == \E k \in 1..MaxInFlight, ok \in BOOLEAN : CloseSettled(k, ok)

PipelineSettles ==
    \E i \in 1..MaxInFlight :
        \/ \E m \in LiveMonitorLists : MonitorsResolved(i, m)
        \/ \E p \in LivePaths : ScreenshotResolved(i, p)
        \/ \E p \in LivePaths : CropResolved(i, p)
        \/ PipelineRejected(i)

ExportSettles == \E i \in 1..MaxInFlight : ExportResolved(i) \/ ExportRejected(i)

OverlayUsed == OverlayEscape \/ \E k \in 1..MaxInFlight : SubmitResolved(k)

-----------------------------------------------------------------------------
(* Spec: the session's life and the overlay region capture of the main
   window, on a platform that uses the overlay *)

InitOverlay == Init /\ platform = "macos"

Next ==
    \/ SessionRefEffect
    \/ SessionActions
    \/ openRegionCapture
    \/ RegionSteps
    \/ ToggleRecap

Spec == InitOverlay /\ [][Next]_vars

-----------------------------------------------------------------------------
(* SpecCap: a session that already holds NOTE_CAP - 1 or NOTE_CAP notes, and
   the three ways of committing a note: the text input, the full-screen
   capture and the region capture, one capture at a time *)

Filled(k) ==
    [i \in 1..k |-> [id |-> 1 - i, timestamp |-> 0, type |-> "test", text |-> <<"x">>]]

InitCap ==
    /\ \E k \in {NOTE_CAP - 1, NOTE_CAP} :
          session = [testerName |-> <<"D", "e", "l">>,
                     charter |-> <<"c", "h", "r">>,
                     durationMinutes |-> 60,
                     startedAt |-> 0,
                     notes |-> Filled(k)]
    /\ recapOpen = FALSE
    /\ endConfirmOpen = FALSE
    /\ exportError = FALSE
    /\ isRegionCapturing = FALSE
    /\ noteType = "test"
    /\ text = << >>
    /\ isCapturing = FALSE
    /\ exports = << >>
    /\ opens = << >>
    /\ overlayOpen = FALSE
    /\ inbox = << >>
    /\ pipelines = << >>
    /\ shots = << >>
    /\ platform = "macos"
    /\ nextId = 1
    /\ now = 0
    /\ overlay = MountedOverlay
    /\ submits = << >>
    /\ modal = StartedModal
    /\ effects = << ListeningEffect >>
    /\ listeners = Registered(1)
    /\ sessionRef = session
    /\ last = Did("init", NoPath)

NoCapture == InFlight = 0 /\ ~overlayOpen

(* The screenshot of a whole monitor is written to one path, and what is
   cropped or copied from it to another *)

FullPath == <<"/", "p">>

CutPath == <<"/", "q">>

CapRegionSteps ==
    \/ \E i \in 1..MaxInFlight, a \in Platforms \cup {""} : PlatformSettled(i, a)
    \/ \E i \in 1..MaxInFlight : OverlayOpened(i)
    \/ Gesture
    \/ OnRegionSelected
    \/ \E i \in 1..MaxInFlight, m \in MonitorLists : MonitorsResolved(i, m)
    \/ \E i \in 1..MaxInFlight : ScreenshotResolved(i, FullPath)
    \/ \E i \in 1..MaxInFlight : CropResolved(i, CutPath)
    \/ \E i \in 1..MaxInFlight : PipelineRejected(i)

CapShotSteps ==
    \/ \E i \in 1..MaxInFlight, a \in {"yes", "no", "thrown"} : PermissionChecked(i, a)
    \/ \E i \in 1..MaxInFlight : PermissionRequested(i)
    \/ \E i \in 1..MaxInFlight, a \in {"yes", "no", "thrown"} : PermissionRechecked(i, a)
    \/ \E i \in 1..MaxInFlight, m \in MonitorLists : ShotMonitorsResolved(i, m)
    \/ \E i \in 1..MaxInFlight : ShotScreenshotResolved(i, FullPath)
    \/ \E i \in 1..MaxInFlight, p \in {CutPath, NoPath} : ShotCopySettled(i, p)
    \/ \E i \in 1..MaxInFlight : ShotRejected(i)

NextCap ==
    \/ SessionRefEffect
    \/ Tick
    \/ OnChangeText(<<" ", "a", " ">>)
    \/ PanelCommit
    \/ NoCapture /\ openRegionCapture
    \/ CapRegionSteps
    \/ NoCapture /\ captureScreenshot
    \/ CapShotSteps

SpecCap == InitCap /\ [][NextCap]_vars

-----------------------------------------------------------------------------
(* SpecResolve: the monitor resolver and the crop rectangle, for selections
   whose corner lies inside one monitor, inside two overlapping monitors, on
   a right or bottom edge, or outside every monitor, and for monitor lists
   in both orders.  Every list is non-empty and every monitor has a numeric
   id, which is the resolver's domain. *)

MonA == Monitor(1, TRUE, 0, 0, 100, 100)

MonB == Monitor(2, TRUE, 100, 0, 200, 200)

MonC == Monitor(3, TRUE, 50, 50, 100, 100)

MonD == Monitor(4, TRUE, -100, 20, 100, 100)

ResolverMonitorLists ==
    { <<MonA, MonB>>, <<MonB, MonA>>, <<MonA, MonC>>, <<MonC, MonA>>,
      <<MonD, MonA, MonB>>, <<MonC>> }

ResolverCorners ==
    { <<150, 10>>, <<9999, 9999>>, <<100, 0>>, <<60, 100>>, <<75, 75>>,
      <<-1, 25>>, <<0, 0>>, <<99, 99>> }

ResolverSizes == { <<20, 30>>, <<5, 400>> }

(* The pointer events of the drags that select a rectangle with a corner of
   ResolverCorners and a size of ResolverSizes: down on the corner, up a
   size further from where the drag started *)

ResolverDowns == { PointerEvent(0, c[1] * Half, c[2] * Half) : c \in ResolverCorners }

ResolverUp(z) ==
    IF overlay.startRef = NoStart
    THEN PointerEvent(0, z[1] * Half, z[2] * Half)
    ELSE PointerEvent(0, overlay.startRef.screenX + z[1] * Half,
                         overlay.startRef.screenY + z[2] * Half)

InitResolve ==
    /\ session = [testerName |-> <<"D", "e", "l">>,
                  charter |-> <<"c", "h", "r">>,
                  durationMinutes |-> 60,
                  startedAt |-> 0,
                  notes |-> << >>]
    /\ recapOpen = FALSE
    /\ endConfirmOpen = FALSE
    /\ exportError = FALSE
    /\ isRegionCapturing = FALSE
    /\ noteType = "test"
    /\ text = << >>
    /\ isCapturing = FALSE
    /\ exports = << >>
    /\ opens = << >>
    /\ overlayOpen = FALSE
    /\ inbox = << >>
    /\ pipelines = << >>
    /\ shots = << >>
    /\ platform = "macos"
    /\ nextId = 1
    /\ now = 0
    /\ overlay = MountedOverlay
    /\ submits = << >>
    /\ modal = StartedModal
    /\ effects = << ListeningEffect >>
    /\ listeners = Registered(1)
    /\ sessionRef = session
    /\ last = Did("init", NoPath)

NextResolve ==
    \/ SessionRefEffect
    \/ NoCapture /\ openRegionCapture
    \/ \E i \in 1..MaxInFlight, a \in Platforms \cup {""} : PlatformSettled(i, a)
    \/ \E i \in 1..MaxInFlight : OverlayOpened(i)
    \/ submits = << >> /\ \E e \in ResolverDowns : OnPointerDown(e)
    \/ \E z \in ResolverSizes : OnPointerUp(ResolverUp(z))
    \/ \E k \in 1..MaxInFlight : SubmitResolved(k)
    \/ OnRegionSelected
    \/ \E i \in 1..MaxInFlight, m \in ResolverMonitorLists : MonitorsResolved(i, m)
    \/ \E i \in 1..MaxInFlight, p \in Paths : ScreenshotResolved(i, p)
    \/ \E i \in 1..MaxInFlight, p \in Paths : CropResolved(i, p)

SpecResolve == InitResolve /\ [][NextResolve]_vars

-----------------------------------------------------------------------------
(* SpecPipe: region captures of a started session through the overlay, as
   the capturing flag admits them: a capture can be opened while the crop
   pipeline of the one before is awaited *)

NextPipe ==
    \/ SessionRefEffect
    \/ openRegionCapture
    \/ CapRegionSteps

SpecPipe == InitResolve /\ [][NextPipe]_vars

-----------------------------------------------------------------------------
(* SpecOverlay: the overlay window's gestures, one overlay at a time, with
   the main window's listeners and crop pipeline behind them *)

OverlayActions ==
    \/ \E e \in PointerDowns : OnPointerDown(e)
    \/ \E e \in PointerUps : OnPointerUp(e)
    \/ \E k \in 1..MaxInFlight : SubmitResolved(k)
    \/ \E k \in 1..MaxInFlight : SubmitRejected(k)
    \/ \E k \in 1..MaxInFlight, ok \in BOOLEAN : CloseSettled(k, ok)
    \/ OverlayEscape
    \/ EscapeSettles
    \/ JsCloseSettles

NextOverlay ==
    \/ SessionRefEffect
    \/ NoCapture /\ openRegionCapture
    \/ \E i \in 1..MaxInFlight, a \in Platforms \cup {""} : PlatformSettled(i, a)
    \/ \E i \in 1..MaxInFlight : OverlayOpened(i)
    \/ OverlayActions
    \/ OnRegionSelected
    \/ OnRegionOverlayClosed
    \/ PipelineSettles

SpecOverlay == InitResolve /\ [][NextOverlay]_vars

-----------------------------------------------------------------------------
(* SpecSnip: the session's life and the region capture on the platform that
   uses the OS-native snip; when platform_os rejects, the overlay is opened
   there as well *)

InitSnip == Init /\ platform = "windows"

NextSnip ==
    \/ SessionRefEffect
    \/ SetTesterName(<<"D", "e", "l">>)
    \/ SetCharter(<<"c", "h", "r">>)
    \/ StartClicked
    \/ requestEndSession
    \/ exports = << >> /\ performEndSession
    \/ ExportSettles
    \/ openRegionCapture
    \/ PlatformSettles
    \/ SnipSettles
    \/ AlwaysOnTopSettles
    \/ \E i \in 1..MaxInFlight : OverlayOpened(i)
    \/ \E i \in 1..MaxInFlight : OverlayOpenRejected(i)
    \/ Cancel
    \/ OnRegionOverlayClosed

SpecSnip == InitSnip /\ [][NextSnip]_vars

-----------------------------------------------------------------------------
(* SpecStart: the Start screen's fields and button, and sessions started,
   filled with typed notes, exported one export at a time, and started
   again *)

NameInputs == { << >>, <<" ", " ">>, <<"D">>, <<" ", "D", "e", " ">> }

CharterInputs == { <<" ", " ", " ">>, <<"a", "b", "\r">>, <<" ", "c", "h", "r", " ">> }

ModalActions ==
    \/ \E v \in NameInputs : SetTesterName(v)
    \/ \E v \in CharterInputs : SetCharter(v)
    \/ \E d \in Durations : SetDurationMinutes(d)
    \/ ClearModal
    \/ StartClicked

NextStart ==
    \/ SessionRefEffect
    \/ ModalActions
    \/ TypingActions
    \/ requestEndSession
    \/ exports = << >> /\ performEndSession
    \/ \E i \in 1..MaxInFlight : ExportResolved(i)
    \/ \E i \in 1..MaxInFlight : ExportRejected(i)

SpecStart == InitOverlay /\ [][NextStart]_vars

-----------------------------------------------------------------------------
(* The instrument panel's keyboard: a started session, the textarea's
   onChange and onKeyDown *)

NextKeys ==
    \/ OnChangeText(<<" ", "a", " ">>)
    \/ \E e \in KeyEvents : OnKeyDown(e)

SpecKeys == InitResolve /\ [][NextKeys]_vars

-----------------------------------------------------------------------------
(* The report renderer behind export_session_markdown: render(session), a
   pure function of the session the export call was handed. Of its output
   the summary section and the sequence of rendered notes are kept. *)

NoSection == [present |-> FALSE, lines |-> << >>]

(* the types the summary counts, in the order of its lines *)

SummaryTypes == << "bug", "idea", "observation", "question", "warning" >>

(* the label table: singular and plural of every summary type *)

SummaryLabel ==
    [ t \in { SummaryTypes[k] : k \in 1..Len(SummaryTypes) } |->
        CASE t = "bug" -> [one |-> "Bug", many |-> "Bugs"]
          [] t = "idea" -> [one |-> "Idea", many |-> "Ideas"]
          [] t = "observation" -> [one |-> "Observation", many |-> "Observations"]
          [] t = "question" -> [one |-> "Question", many |-> "Questions"]
          [] t = "warning" -> [one |-> "Warning", many |-> "Warnings"] ]

RECURSIVE countType(_, _)
countType(notes, t) ==
    IF notes = << >>
    THEN 0
    ELSE (IF Head(notes).type = t THEN 1 ELSE 0) + countType(Tail(notes), t)

pluralise_alwaysPlural(t, count) == SummaryLabel[t].many

pluralise(t, count) ==
    IF count = 1 THEN SummaryLabel[t].one ELSE SummaryLabel[t].many

RECURSIVE summaryLines(_, _)
summaryLines(notes, types) ==
    IF types = << >>
    THEN << >>
    ELSE LET t == Head(types)
             count == countType(notes, t)
             rest == summaryLines(notes, Tail(types))
         IN IF count > 0
            THEN << [type |-> t, count |-> count, label |-> pluralise(t, count)] >>
                 \o rest
            ELSE rest

renderSummary(notes) ==
    LET lines == summaryLines(notes, SummaryTypes)
    IN IF lines = << >> THEN NoSection ELSE [present |-> TRUE, lines |-> lines]

Reverse(s) == [k \in 1..Len(s) |-> s[Len(s) + 1 - k]]

renderNotes(notes) == Reverse(notes)

render(s) == [summary |-> renderSummary(s.notes), notes |-> renderNotes(s.notes)]

(* The keys that pick a note type and commit the text *)

ReportKeys ==
    { KeyEvent(k, FALSE, FALSE, FALSE, FALSE) : k \in {"Enter", "ArrowUp", "ArrowDown"} }

(* SpecTyped: texts with white space of every kind around and inside them,
   typed and committed with Enter under any of the note types *)

NextTyped ==
    \/ \E t \in Texts : OnChangeText(t)
    \/ \E e \in ReportKeys : OnKeyDown(e)

SpecTyped == InitResolve /\ [][NextTyped]_vars

(* Ending a session whose notes were typed under any of the note types:
   the keyboard, the confirmation dialog and one export at a time *)

NextReport ==
    \/ SessionRefEffect
    \/ OnChangeText(<<" ", "a", " ">>)
    \/ \E e \in ReportKeys : OnKeyDown(e)
    \/ requestEndSession
    \/ CancelEndSession
    \/ exports = << >> /\ performEndSession
    \/ \E i \in 1..MaxInFlight : ExportResolved(i)
    \/ \E i \in 1..MaxInFlight : ExportRejected(i)

SpecReport == InitResolve /\ [][NextReport]_vars

-----------------------------------------------------------------------------
(* SpecLive: the region capture from the Region button to its end on either
   platform, one attempt at a time, in a session that may be ended
   meanwhile, with the scheduling the run time gives: every awaited call
   settles, every event emitted to the main window reaches its listener,
   the effects of a render run, and the user of an open overlay eventually
   presses Escape or gets a selection through.  A call that is awaited stays
   awaited until it settles: weak fairness.  The user can act only while
   the overlay is open and nothing else fills the calls in flight, again and
   again rather than without interruption: strong fairness. *)

InitLive ==
    /\ session = [testerName |-> <<"D", "e", "l">>,
                  charter |-> <<"c", "h", "r">>,
                  durationMinutes |-> 60,
                  startedAt |-> 0,
                  notes |-> << >>]
    /\ recapOpen = FALSE
    /\ endConfirmOpen = FALSE
    /\ exportError = FALSE
    /\ isRegionCapturing = FALSE
    /\ noteType = "test"
    /\ text = << >>
    /\ isCapturing = FALSE
    /\ exports = << >>
    /\ opens = << >>
    /\ overlayOpen = FALSE
    /\ inbox = << >>
    /\ pipelines = << >>
    /\ shots = << >>
    /\ platform \in Platforms
    /\ nextId = 1
    /\ now = 0
    /\ overlay = MountedOverlay
    /\ submits = << >>
    /\ modal = StartedModal
    /\ effects = << ListeningEffect >>
    /\ listeners = Registered(1)
    /\ sessionRef = session
    /\ last = Did("init", NoPath)

NextLive ==
    \/ SessionRefEffect
    \/ ToggleRecap
    \/ requestEndSession
    \/ exports = << >> /\ performEndSession
    \/ ExportSettles
    \/ NoCapture /\ openRegionCapture
    \/ PlatformSettles
    \/ OverlayOpenSettles
    \/ SnipSettles
    \/ AlwaysOnTopSettles
    \/ \E e \in LiveDowns : OnPointerDown(e)
    \/ \E e \in LiveUps : OnPointerUp(e)
    \/ SubmitSettles
    \/ CloseSettles
    \/ OverlayEscape
    \/ EscapeSettles
    \/ JsCloseSettles
    \/ OnRegionSelected
    \/ OnRegionOverlayClosed
    \/ PipelineSettles

Scheduling ==
    /\ WF_vars(SessionRefEffect)
    /\ WF_vars(PlatformSettles)
    /\ WF_vars(OverlayOpenSettles)
    /\ WF_vars(SnipSettles)
    /\ WF_vars(AlwaysOnTopSettles)
    /\ WF_vars(SubmitSettles)
    /\ WF_vars(CloseSettles)
    /\ WF_vars(EscapeSettles)
    /\ WF_vars(JsCloseSettles)
    /\ WF_vars(PipelineSettles)
    /\ WF_vars(ExportSettles)
    /\ WF_vars(OnRegionSelected)
    /\ WF_vars(OnRegionOverlayClosed)
    /\ SF_vars(OverlayUsed)

SpecLive == InitLive /\ [][NextLive]_vars /\ Scheduling

-----------------------------------------------------------------------------
(* SpecListen: the main window's listener effect run, cleaned up and run
   again, in any interleaving with the registrations it awaits, and region
   captures through the overlay meanwhile, one attempt at a time *)

InitListen ==
    /\ session = [testerName |-> <<"D", "e", "l">>,
                  charter |-> <<"c", "h", "r">>,
                  durationMinutes |-> 60,
                  startedAt |-> 0,
                  notes |-> << >>]
    /\ recapOpen = FALSE
    /\ endConfirmOpen = FALSE
    /\ exportError = FALSE
    /\ isRegionCapturing = FALSE
    /\ noteType = "test"
    /\ text = << >>
    /\ isCapturing = FALSE
    /\ exports = << >>
    /\ opens = << >>
    /\ overlayOpen = FALSE
    /\ inbox = << >>
    /\ pipelines = << >>
    /\ shots = << >>
    /\ platform = "macos"
    /\ nextId = 1
    /\ now = 0
    /\ overlay = MountedOverlay
    /\ submits = << >>
    /\ modal = StartedModal
    /\ effects = << >>
    /\ listeners = {}
    /\ sessionRef = session
    /\ last = Did("init", NoPath)

EffectActions ==
    \/ MountApp
    \/ \E k \in 1..MaxMounts : UnmountApp(k)
    \/ \E k \in 1..MaxMounts : ListenSelectedResolved(k)
    \/ \E k \in 1..MaxMounts : ListenClosedResolved(k)
    \/ \E k \in 1..MaxMounts : ListenRejected(k)

NextListen ==
    \/ SessionRefEffect
    \/ EffectActions
    \/ NoCapture /\ openRegionCapture
    \/ PlatformSettles
    \/ \E i \in 1..MaxInFlight : OverlayOpened(i)
    \/ Gesture
    \/ Cancel
    \/ OnRegionSelected
    \/ OnRegionOverlayClosed
    \/ \E i \in 1..(2 * MaxInFlight) :
          \/ \E m \in LiveMonitorLists : MonitorsResolved(i, m)
          \/ \E p \in LivePaths : ScreenshotResolved(i, p)
          \/ \E p \in LivePaths : CropResolved(i, p)
          \/ PipelineRejected(i)

SpecListen == InitListen /\ [][NextListen]_vars

-----------------------------------------------------------------------------
(* SpecShot: the Screenshot and Region buttons of the instrument panel as
   the code guards them, in sessions that are ended and started again while
   a capture may still be awaited *)

NextShot ==
    \/ SessionRefEffect
    \/ SetCharter(<<"c", "h", "r">>)
    \/ StartClicked
    \/ requestEndSession
    \/ exports = << >> /\ performEndSession
    \/ ExportSettles
    \/ captureScreenshot
    \/ \E i \in 1..MaxInFlight, a \in {"yes", "no", "thrown"} : PermissionChecked(i, a)
    \/ \E i \in 1..MaxInFlight : PermissionRequested(i)
    \/ \E i \in 1..MaxInFlight, a \in {"yes", "no", "thrown"} : PermissionRechecked(i, a)
    \/ \E i \in 1..MaxInFlight, m \in LiveMonitorLists : ShotMonitorsResolved(i, m)
    \/ \E i \in 1..MaxInFlight, p \in LivePaths : ShotScreenshotResolved(i, p)
    \/ \E i \in 1..MaxInFlight, p \in LivePaths \cup {NoPath} : ShotCopySettled(i, p)
    \/ \E i \in 1..MaxInFlight : ShotRejected(i)
    \/ openRegionCapture
    \/ PlatformSettles
    \/ OverlayOpenSettles
    \/ Cancel
    \/ OnRegionOverlayClosed

SpecShot == InitResolve /\ [][NextShot]_vars

-----------------------------------------------------------------------------
(* SpecRestart: region captures of sessions that are exported, discarded and
   started again at a later instant, while a capture may still be awaited *)

NextRestart ==
    \/ SessionRefEffect
    \/ SetTesterName(<<"D", "e", "l">>)
    \/ SetCharter(<<"c", "h", "r">>)
    \/ StartClicked
    \/ requestEndSession
    \/ exports = << >> /\ performEndSession
    \/ ExportSettles
    \/ Tick
    \/ openRegionCapture
    \/ PlatformSettles
    \/ OverlayOpenSettles
    \/ Gesture
    \/ Cancel
    \/ OnRegionSelected
    \/ OnRegionOverlayClosed
    \/ PipelineSettles

SpecRestart == InitOverlay /\ [][NextRestart]_vars

-----------------------------------------------------------------------------
(* SpecTypes: the textarea's keyboard together with the three capture paths
   of a started session, one capture at a time, the screen recording
   permission granted, on the platform that uses the OS-native snip and,
   when platform_os rejects, the overlay *)

TypeKeys ==
    { KeyEvent(k, FALSE, FALSE, FALSE, FALSE) : k \in {"Enter", "ArrowUp", "ArrowDown"} }
      \cup { KeyEvent(k, FALSE, TRUE, FALSE, FALSE) : k \in {"1", "2", "3", "4", "5", "6", "7"} }

ShotSettles ==
    \E i \in 1..MaxInFlight :
        \/ PermissionChecked(i, "yes")
        \/ PermissionRechecked(i, "yes")
        \/ \E m \in LiveMonitorLists : ShotMonitorsResolved(i, m)
        \/ \E p \in LivePaths : ShotScreenshotResolved(i, p)
        \/ \E p \in LivePaths \cup {NoPath} : ShotCopySettled(i, p)
        \/ ShotRejected(i)

NextTypes ==
    \/ SessionRefEffect
    \/ OnChangeText(<<" ", "a", " ">>)
    \/ \E e \in TypeKeys : OnKeyDown(e)
    \/ NoCapture /\ captureScreenshot
    \/ ShotSettles
    \/ NoCapture /\ openRegionCapture
    \/ PlatformSettles
    \/ \E i \in 1..MaxInFlight : OverlayOpened(i)
    \/ Gesture
    \/ OnRegionSelected
    \/ PipelineSettles
    \/ SnipSettles
    \/ AlwaysOnTopSettles

InitTypes == InitLive /\ platform = "windows"

SpecTypes == InitTypes /\ [][NextTypes]_vars

-----------------------------------------------------------------------------
(* Properties *)

CommitOps == {"commit", "cropped", "shot-copied", "shot-original", "snip-commit"}

(* A note is handed to handleCommit while a session is active *)

Committing == session # NoSession /\ nextId' = nextId + 1

(* The notes stored before the step follow the first note of the list after it *)

Shifted == \A i \in 2..Len(session'.notes) : session'.notes[i] = session.notes[i - 1]

(* C1: session.notes never holds more than NOTE_CAP entries, and a commit to a
   full list keeps the new note and the NOTE_CAP - 1 newest of the old ones,
   dropping the oldest. *)
C1_NotesCapped ==
    [][ /\ session' # NoSession => Len(session'.notes) <= NOTE_CAP
        /\ Committing /\ Len(session.notes) = NOTE_CAP =>
              /\ Len(session'.notes) = NOTE_CAP
              /\ session'.notes[1].id = nextId
              /\ SubSeq(session'.notes, 2, NOTE_CAP)
                    = SubSeq(session.notes, 1, NOTE_CAP - 1) ]_vars

(* A commit has overflowed the list: the initial lists hold the ids
   1 - k .. 0 with k >= NOTE_CAP - 1, and the two oldest of them are gone *)
C1_Witness ==
    /\ session # NoSession
    /\ last.op \in CommitOps
    /\ Len(session.notes) = NOTE_CAP
    /\ session.notes[NOTE_CAP].id >= 3 - NOTE_CAP

(* C2: the list is newest-first: a commit puts the new note at the head and
   the notes already stored follow in their order, so the ids (given out in
   commit order) fall strictly along the list. *)
C2_NewestFirst ==
    [][ /\ Committing => session'.notes[1].id = nextId /\ Shifted
        /\ session' # NoSession =>
              \A i \in 1..(Len(session'.notes) - 1) :
                  session'.notes[i].id > session'.notes[i + 1].id ]_vars

C2_Witness ==
    /\ session # NoSession
    /\ Len(session.notes) >= 3
    /\ session.notes[1].id = 2
    /\ session.notes[1].type = "screenshot"
    /\ session.notes[2].id = 1
    /\ session.notes[2].type = "test"
    /\ session.notes[3].id = 0

(* C3: while a session is active a step changes nothing of it but the notes:
   the metadata stay, and the notes are either untouched or shifted by one
   commit, the oldest leaving only when the list was full. *)
C3_OnlyNotesChange ==
    [][ session # NoSession /\ session' # NoSession =>
          /\ session'.testerName = session.testerName
          /\ session'.charter = session.charter
          /\ session'.durationMinutes = session.durationMinutes
          /\ session'.startedAt = session.startedAt
          /\ \/ session'.notes = session.notes
             \/ /\ Committing
                /\ Shifted
                /\ \/ Len(session'.notes) = Len(session.notes) + 1
                   \/ Len(session.notes) = NOTE_CAP ]_vars

C3_Witness ==
    /\ session # NoSession
    /\ last.op \in CommitOps
    /\ session.notes[1].id >= 1
    /\ session.notes[1].timestamp > session.startedAt
    /\ session.charter = <<"c", "h", "r">>

(* One awaited call of the crop pipeline rejected in this step *)

PipelineFailing == Len(pipelines') < Len(pipelines) /\ last'.op = "pipeline-failed"

(* C4: a failure of the crop pipeline leaves the session as it was, adds no
   note, clears the capturing flag, and does not stand in the way of another
   region capture. *)
C4_FailureRecovers ==
    [][ PipelineFailing =>
          /\ session' = session
          /\ ~isRegionCapturing'
          /\ ~isCapturing' => ~RegionCaptureRefused' ]_vars

C4_Witness ==
    /\ last.op = "pipeline-failed"
    /\ last.at = "crop"
    /\ session # NoSession
    /\ Len(session.notes) >= 1
    /\ ~isRegionCapturing

(* C5: while the crop pipeline of a received selection is awaited, the main
   window is in the capturing state (so that a request to open a region
   capture is refused). *)
C5_CapturingWhilePipelineRuns == pipelines # << >> => isRegionCapturing

(* The region capture attempts in progress: requested, on the overlay,
   submitted, or in the crop pipeline *)

RegionAttempts ==
    Len(opens) + (IF overlayOpen THEN 1 ELSE 0)
    + Cardinality({ k \in 1..Len(inbox) : inbox[k].kind = "region-selected" })
    + Len(pipelines)

(* C6: at most one region capture attempt is in progress at any time. *)
C6_OneAttemptAtATime == RegionAttempts <= 1

(* The crop of a pipeline resolved in this step *)

Cropping == Len(pipelines') < Len(pipelines) /\ last'.op = "cropped"

(* C7: when the crop resolves while a session is active, exactly one note is
   added, a screenshot note whose text is the path the crop returned. *)
C7_CropCommitsScreenshot ==
    [][ Cropping /\ session # NoSession =>
          /\ Len(session'.notes) = Min(Len(session.notes) + 1, NOTE_CAP)
          /\ Shifted
          /\ session'.notes[1].type = "screenshot"
          /\ session'.notes[1].text = last'.path
          /\ session'.notes[1].id = nextId ]_vars

C7_Witness ==
    /\ last.op = "cropped"
    /\ session # NoSession
    /\ Len(session.notes) = 2
    /\ session.notes[1].type = "screenshot"
    /\ session.notes[1].text = last.path
    /\ session.notes[1].text = CutPath

(* The export command rejected in this step *)

ExportFailing == Len(exports') < Len(exports) /\ last'.op = "export-failed"

(* C8: when the export fails the session is as it was, the dialog is closed,
   the failure message is set, and the session is still there for End
   session to be requested again. *)
C8_ExportFailureKeepsSession ==
    [][ ExportFailing =>
          /\ session' = session
          /\ ~endConfirmOpen'
          /\ exportError'
          /\ session' # NoSession ]_vars

(* C9: no two exports of a session are in flight at the same time. *)
C9_OneExportAtATime == Len(exports) <= 1

(* C10: after the export resolved there is no session (the Start screen is
   shown), the dialog and the recap are closed and the capturing flag is
   cleared. *)
C10_ExportSuccessResets ==
    last.op = "export-ok" =>
        /\ session = NoSession
        /\ ~endConfirmOpen
        /\ ~recapOpen
        /\ ~isRegionCapturing

(* The export resolved with the recap open and the overlay of a region
   capture open *)
C10_Witness ==
    /\ last.op = "export-ok"
    /\ last.at = "recap"
    /\ ~recapOpen
    /\ session = NoSession
    /\ overlayOpen
    /\ ~isRegionCapturing

(* C11: cancelling the End session dialog starts no export and leaves the
   session active and as it was, notes included; the dialog is closed. *)
C11_CancelDoesNotExport ==
    [][ last'.op = "cancel-end" =>
          /\ exports' = exports
          /\ session' = session
          /\ session' # NoSession
          /\ ~endConfirmOpen' ]_vars

C11_Witness ==
    /\ last.op = "cancel-end"
    /\ session # NoSession
    /\ Len(session.notes) >= 1
    /\ exports = << >>
    /\ ~endConfirmOpen

(* The pipelines that have picked their monitor *)

Picked == { i \in 1..Len(pipelines) : pipelines[i].pc # "monitors" }

(* The monitors of pipeline p's list whose bounds hold the corner of its
   selection, the left and top edges counted in, the right and bottom not *)

Holding(p) ==
    { k \in 1..Len(p.monitors) :
         /\ p.monitors[k].position.x <= p.selection.x
         /\ p.selection.x < p.monitors[k].position.x + p.monitors[k].size.width
         /\ p.monitors[k].position.y <= p.selection.y
         /\ p.selection.y < p.monitors[k].position.y + p.monitors[k].size.height }

(* The monitor whose screenshot pipeline p requests: its place in the list *)

Chosen(p) == CHOOSE k \in 1..Len(p.monitors) : p.monitors[k].id = p.monitorId

(* C12: the monitor picked is the first of the list, in the order of
   enumeration, whose bounds hold the selection's top-left corner under
   half-open containment; width and height of the selection play no part, a
   corner on a right or bottom edge is not held, and of two monitors holding
   the corner the earlier one is picked. *)
C12_FirstContainingMonitor ==
    \A i \in Picked :
        LET p == pipelines[i] IN
        Holding(p) # {} =>
            /\ Chosen(p) \in Holding(p)
            /\ \A j \in Holding(p) : Chosen(p) <= j

(* The corner (60,100) is on the bottom edge of monitor 1 and inside monitor
   3, and (75,75) is inside both: for the list <<1, 3>> monitor 3 is picked
   for the first and monitor 1 for the second *)
C12_Witness ==
    \E i \in Picked :
        LET p == pipelines[i] IN
        /\ p.monitors = <<MonA, MonC>>
        /\ \/ p.selection.x = 60 /\ p.selection.y = 100 /\ p.monitorId = 3
           \/ p.selection.x = 75 /\ p.selection.y = 75 /\ p.monitorId = 1
        /\ p.pc = "crop"

(* C13: when no monitor of the list holds the corner, the first monitor of
   the list is picked, with its origin, and the capture goes on: no attempt
   ends for want of a monitor. *)
C13_FallbackToFirst ==
    /\ last.op \notin {"no-monitors", "no-monitor-id"}
    /\ \A i \in Picked :
          LET p == pipelines[i] IN
          Holding(p) = {} =>
              /\ p.monitorId = p.monitors[1].id
              /\ p.crop.x = p.selection.x - p.monitors[1].position.x
              /\ p.crop.y = p.selection.y - p.monitors[1].position.y

C13_Witness ==
    \E i \in Picked :
        LET p == pipelines[i] IN
        /\ p.selection.x = 9999
        /\ p.selection.y = 9999
        /\ p.monitors = <<MonD, MonA, MonB>>
        /\ p.monitorId = 4
        /\ p.crop.x = 10099
        /\ p.crop.y = 9979
        /\ p.pc = "crop"

(* C14: the screenshot is requested for the picked monitor's id and the
   rectangle handed to the crop is the selection translated by that
   monitor's origin, width, height and devicePixelRatio unchanged; selection
   (150,10) on monitors 1 at (0,0) 100x100 and 2 at (100,0) 200x200 uses
   monitor 2 and the local position (50,10). *)
C14_CropIsTranslatedSelection ==
    \A i \in Picked :
        LET p == pipelines[i]
            m == p.monitors[Chosen(p)]
        IN  /\ \E k \in 1..Len(p.monitors) : p.monitors[k].id = p.monitorId
            /\ p.crop = [x |-> p.selection.x - m.position.x,
                         y |-> p.selection.y - m.position.y,
                         width |-> p.selection.width,
                         height |-> p.selection.height,
                         devicePixelRatio |-> p.selection.devicePixelRatio]
            /\ p.selection.x = 150 /\ p.selection.y = 10 /\ p.monitors = <<MonA, MonB>> =>
                   p.monitorId = 2 /\ p.crop.x = 50 /\ p.crop.y = 10

C14_Witness ==
    \E i \in Picked :
        LET p == pipelines[i] IN
        /\ p.selection.x = 150
        /\ p.selection.y = 10
        /\ p.monitors = <<MonA, MonB>>
        /\ p.monitorId = 2
        /\ p.crop = [x |-> 50, y |-> 10, width |-> 20, height |-> 30, devicePixelRatio |-> 2]
        /\ p.pc = "crop"

(* C15: a gesture, from its pointer-down on, invokes the submission at most
   once, however many pointer-ups are delivered for it and whether or not the
   first submission has settled. *)
C15_OneSubmitPerGesture == overlay.sent <= 1

(* A second pointer-up was delivered while the submission of the first was
   awaited, and was ignored *)
C15_Witness ==
    /\ last.op = "pointer-up-ignored"
    /\ overlayOpen
    /\ overlay.sent = 1
    /\ overlay.startRef # NoStart
    /\ overlay.submittedRef
    /\ \E k \in 1..Len(submits) : submits[k].pc = "submit" /\ Mounted(submits[k])

(* The distance between two coordinates *)

Dist(a, b) == IF a < b THEN b - a ELSE a - b

(* C16: a pointer-up ending a drag less than 5 wide or less than 5 high
   submits nothing and leaves the overlay open and armed as it was when
   mounted; one ending a drag of at least 5 both ways invokes the submission;
   and every selection submitted is at least 5 wide and 5 high. *)
C16_TinyDragDiscarded ==
    [][ /\ last'.op \in {"drag-discarded", "drag-submitted"} /\ overlay.startRef # NoStart =>
           LET w == Dist(overlay'.lastUp.screenX, overlay.startRef.screenX)
               h == Dist(overlay'.lastUp.screenY, overlay.startRef.screenY)
           IN  IF w < 5 * Half \/ h < 5 * Half
               THEN /\ submits' = submits
                    /\ inbox' = inbox
                    /\ overlayOpen'
                    /\ ~overlay'.submittedRef
                    /\ ~overlay'.dragging
                    /\ overlay'.startRef = NoStart
               ELSE Len(submits') = Len(submits) + 1
        /\ \A k \in 1..Len(submits') :
              submits'[k].pc \in {"submit", "close"} =>
                  submits'[k].selection.width >= 5 /\ submits'[k].selection.height >= 5
        /\ \A k \in 1..Len(inbox') :
              inbox'[k].kind = "region-selected" =>
                  inbox'[k].payload.width >= 5 /\ inbox'[k].payload.height >= 5 ]_vars

(* A drag was discarded and the drag that followed was submitted *)
C16_Witness ==
    /\ last.op = "drag-submitted"
    /\ overlay.discarded
    /\ overlay.sent = 1
    /\ Len(submits) = 1

(* The overlay is closed in this step for an Escape pressed while no
   selection was submitted: by the command Escape invoked, or from JS after
   the command failed *)

EscapeCloses ==
    /\ last'.op \in {"escape-ok", "js-close-ok"}
    /\ overlayOpen /\ ~overlayOpen'
    /\ \A k \in 1..Len(submits) : submits[k].pc \in {"escape", "js-close"}

(* C17: when Escape, pressed before a selection is submitted, closes the
   overlay, the closed signal and no selection is emitted to the main
   window; receiving that signal clears the capturing flag, starts no
   pipeline and leaves the session as it was. *)
C17_EscapeCancels ==
    [][ /\ EscapeCloses =>
           /\ inbox' = Append(inbox, [kind |-> "region-overlay-closed"])
           /\ session' = session
        /\ last'.op = "overlay-closed" /\ Len(inbox') < Len(inbox) =>
           /\ ~isRegionCapturing'
           /\ pipelines' = pipelines
           /\ session' = session ]_vars

(* The snip of attempt i came back without a path in this step *)

SnipEmpty(i) ==
    /\ i \in 1..Len(opens)
    /\ opens[i].pc = "snip"
    /\ opens' = [opens EXCEPT ![i].pc = "restore", ![i].snipPath = NoPath]

(* Attempt i, whose snip came back without a path, ends in this step *)

SnipEmptyEnds(i) ==
    /\ i \in 1..Len(opens)
    /\ opens[i].pc = "restore"
    /\ opens[i].snipPath = NoPath
    /\ opens' = RemoveAt(opens, i)
    /\ last'.op \in {"snip-done", "snip-alert"}

(* C18: an OS-native capture that returns no path (timed out or cancelled)
   adds no note and leaves the session as it was, goes on to its finally
   block and not to the catch block that alerts, sets no failure message, and
   ends with the capturing flag cleared. *)
C18_SnipCancelIsNoOp ==
    [][ \A i \in 1..MaxInFlight :
          /\ SnipEmpty(i) /\ last'.op = "snip-none" =>
                /\ session' = session
                /\ nextId' = nextId
                /\ exportError' = exportError
          /\ SnipEmptyEnds(i) =>
                /\ last'.op = "snip-done"
                /\ session' = session
                /\ exportError' = exportError
                /\ ~isRegionCapturing' ]_vars

(* A cancelled snip has ended in a session that holds the note of an earlier
   snip and nothing else *)
C18_Witness ==
    /\ last.op = "snip-done"
    /\ session # NoSession
    /\ Len(session.notes) = 1
    /\ nextId = 2
    /\ opens = << >>
    /\ ~isRegionCapturing
    /\ ~exportError

(* C19: an attempt goes on to request a screenshot only with a non-empty
   monitor list whose monitor to use has a numeric id; an attempt that ends
   for want of a monitor, in the region capture or in the full-screen
   capture, requests no screenshot, crops nothing, leaves the session and its
   notes as they were, and clears its in-progress flag. *)
C19_NoMonitorEndsAttempt ==
    [][ /\ last'.op \in {"no-monitors", "no-monitor-id"} =>
           /\ Len(pipelines') = Len(pipelines) - 1
           /\ \A i \in 1..Len(pipelines') : pipelines'[i] \in { pipelines[k] : k \in 1..Len(pipelines) }
           /\ session' = session
           /\ nextId' = nextId
           /\ ~isRegionCapturing'
        /\ last'.op = "shot-no-monitor" =>
           /\ Len(shots') = Len(shots) - 1
           /\ \A i \in 1..Len(shots') : shots'[i] \in { shots[k] : k \in 1..Len(shots) }
           /\ session' = session
           /\ nextId' = nextId
           /\ ~isCapturing'
        /\ \A i \in { k \in 1..Len(pipelines') : pipelines'[k].pc # "monitors" } :
              /\ pipelines'[i].monitors # << >>
              /\ \E k \in 1..Len(pipelines'[i].monitors) :
                    /\ pipelines'[i].monitors[k].id = pipelines'[i].monitorId
                    /\ pipelines'[i].monitors[k].idOk
        /\ \A i \in { k \in 1..Len(shots') : shots'[k].pc \in {"screenshot", "copy"} } :
              /\ shots'[i].monitors # << >>
              /\ shots'[i].monitors[1].idOk ]_vars

(* A region capture has just ended for want of a monitor, after a full-screen
   capture had committed its note *)
C19_Witness ==
    /\ last.op \in {"no-monitors", "no-monitor-id"}
    /\ session # NoSession
    /\ session.notes[1].type = "screenshot"
    /\ nextId = 2
    /\ pipelines = << >>
    /\ ~isRegionCapturing

(* Every character of s is white space (so also when s is empty) *)

Blank(s) == \A k \in 1..Len(s) : s[k] \in WhiteSpace \cup LineTerminator

(* t is s without its leading and trailing white space *)

Stripped(t, s) ==
    /\ t # << >>
    /\ t[1] \notin WhiteSpace \cup LineTerminator
    /\ t[Len(t)] \notin WhiteSpace \cup LineTerminator
    /\ \E a \in 1..Len(s) :
          /\ Blank(SubSeq(s, 1, a - 1))
          /\ a + Len(t) - 1 <= Len(s)
          /\ t = SubSeq(s, a, a + Len(t) - 1)
          /\ Blank(SubSeq(s, a + Len(t), Len(s)))

(* C20: Enter on a text that is empty or all white space commits nothing and
   leaves the session as it was; Enter on any other text commits one note of
   the selected type whose text is the typed text without its leading and
   trailing white space, and so is not empty. *)
C20_TypedNoteTrimmed ==
    [][ last'.op \in {"commit", "enter-empty"} /\ session # NoSession =>
          IF Blank(text)
          THEN /\ last'.op = "enter-empty"
               /\ session' = session
               /\ nextId' = nextId
          ELSE /\ last'.op = "commit"
               /\ nextId' = nextId + 1
               /\ Stripped(session'.notes[1].text, text)
               /\ session'.notes[1].type = noteType
               /\ Shifted ]_vars

C20_Witness ==
    /\ last.op = "commit"
    /\ session # NoSession
    /\ session.notes[1].text = <<"a", " ", "b">>
    /\ session.notes[1].type = "test"
    /\ text = << >>

(* The number of characters of s from its first to its last character that
   is not white space *)

CoreLen(s) ==
    LET ink == { k \in 1..Len(s) : s[k] \notin WhiteSpace \cup LineTerminator } IN
    IF ink = {} THEN 0
    ELSE (CHOOSE k \in ink : \A j \in ink : j <= k)
         - (CHOOSE k \in ink : \A j \in ink : k <= j) + 1

(* C21: Start is disabled on the screen as first shown; a click on Start
   starts a session only when the tester name is not blank and the charter
   has at least 3 characters after trimming; and the session started has such
   a name and charter, one of the five durations, and no notes. *)
C21_StartedSessionValid ==
    /\ ~canStart(modal.testerName, modal.charter)
    /\ [][ last'.op = "start" /\ session = NoSession =>
             /\ CoreLen(modal.testerName) >= 1
             /\ CoreLen(modal.charter) >= 3
             /\ session' # NoSession
             /\ CoreLen(session'.testerName) >= 1
             /\ CoreLen(session'.charter) >= 3
             /\ session'.durationMinutes \in {30, 60, 90, 120, NoLimit}
             /\ session'.notes = << >> ]_vars

(* A second session has been started, with no time limit, after a first one
   that held a note was exported *)
C21_Witness ==
    /\ last.op = "start"
    /\ session # NoSession
    /\ session.testerName = <<"D", "e">>
    /\ session.charter = <<"c", "h", "r">>
    /\ session.durationMinutes = NoLimit
    /\ session.notes = << >>
    /\ nextId >= 2

(* A drag was submitted in this step: its start, its end and the selection
   handed to submit_region_selection *)

Submitting ==
    /\ last'.op = "drag-submitted"
    /\ overlay.startRef # NoStart
    /\ Len(submits') = Len(submits) + 1

(* n is the whole number nearest to h halves, a half going up *)

Nearest(n, h) == h = Half * n \/ h = Half * n - 1

(* C22 as stated: the selection submitted is the drag normalised, x and y the
   smaller coordinates and width and height the distances, exactly. *)
C22_ExactNormalisation ==
    [][ Submitting =>
          LET a == overlay.startRef
              b == overlay'.lastUp
              r == submits'[Len(submits')].selection
          IN  /\ Half * r.x = Min(a.screenX, b.screenX)
              /\ Half * r.y = Min(a.screenY, b.screenY)
              /\ Half * r.width = Dist(a.screenX, b.screenX)
              /\ Half * r.height = Dist(a.screenY, b.screenY) ]_vars

(* C22, amended: the selection submitted is the drag normalised and then
   rounded: x and y are the smaller coordinates and width and height the
   distances, each rounded to the nearest whole number; it depends on the two
   corners and not on which of them the drag started from, and width and
   height are not negative. *)
C22_RoundedNormalisation ==
    [][ Submitting =>
          LET a == overlay.startRef
              b == overlay'.lastUp
              r == submits'[Len(submits')].selection
          IN  /\ Nearest(r.x, Min(a.screenX, b.screenX))
              /\ Nearest(r.y, Min(a.screenY, b.screenY))
              /\ Nearest(r.width, Dist(a.screenX, b.screenX))
              /\ Nearest(r.height, Dist(a.screenY, b.screenY))
              /\ r.width >= 0
              /\ r.height >= 0 ]_vars

(* A drag from (40, 12) to (15.5, 40): started from the top right corner and
   ended on a coordinate that is not whole *)
C22_Witness ==
    /\ last.op = "drag-submitted"
    /\ overlay.startRef = PointerEvent(0, 80, 24)
    /\ overlay.lastUp = PointerEvent(0, 31, 80)
    /\ submits # << >>
    /\ submits[Len(submits)].selection =
          [x |-> 16, y |-> 12, width |-> 25, height |-> 28, devicePixelRatio |-> 2]

(* one more ArrowDown from a note type *)

Down(t) ==
    CASE t = "test" -> "bug"
      [] t = "bug" -> "idea"
      [] t = "idea" -> "observation"
      [] t = "observation" -> "warning"
      [] t = "warning" -> "question"
      [] t = "question" -> "snippet"
      [] t = "snippet" -> "test"

RECURSIVE Downs(_, _)
Downs(k, t) == IF k = 0 THEN t ELSE Downs(k - 1, Down(t))

(* C23: the note type starts as test; ArrowDown selects the next and
   ArrowUp the previous note type in the cyclic order test, bug, idea,
   observation, warning, question, snippet, so ArrowUp undoes ArrowDown
   and seven ArrowDowns come back to the starting type *)

C23_ArrowsCycleNoteTypes ==
    /\ noteType = "test"
    /\ [][ /\ last'.op = "arrow-down" =>
                /\ noteType' = Down(noteType)
                /\ Downs(6, noteType') = noteType
           /\ last'.op = "arrow-up" =>
                /\ Down(noteType') = noteType
                /\ Downs(6, noteType) = noteType'
         ]_vars

C23_Witness ==
    /\ last.op = "arrow-down"
    /\ noteType = "test"
    /\ session # NoSession
    /\ session.notes # << >>
    /\ session.notes[1].type = "snippet"


(* C24: the report lists the notes oldest first: whatever was committed to
   the session, the notes of the report stand in the order of their
   commits, the reverse of the stored newest-first list *)

C24_ReportChronological ==
    \A i \in 1..Len(exports) :
        LET stored == exports[i].notes
            shown == render(exports[i]).notes
        IN /\ Len(shown) = Len(stored)
           /\ \A k \in 1..Len(shown) : shown[k] = stored[Len(stored) + 1 - k]
           /\ \A a, b \in 1..Len(shown) : a < b => shown[a].id < shown[b].id

C24_Witness ==
    /\ exports # << >>
    /\ Len(exports[1].notes) >= 2
    /\ exports[1].notes[1].id = 2
    /\ exports[1].notes[1].type = "bug"
    /\ exports[1].notes[2].id = 1
    /\ exports[1].notes[2].type = "snippet"
    /\ render(exports[1]).notes[1].type = "snippet"

(* the number of notes of one type, and the summary line of one type *)

Count(notes, t) == Cardinality({ k \in 1..Len(notes) : notes[k].type = t })

LinesOf(summary, t) ==
    IF summary.present
    THEN { k \in 1..Len(summary.lines) : summary.lines[k].type = t }
    ELSE {}

Counted == { "bug", "idea", "observation", "question", "warning" }

Singular ==
    [ t \in Counted |->
        CASE t = "bug" -> "Bug"
          [] t = "idea" -> "Idea"
          [] t = "observation" -> "Observation"
          [] t = "question" -> "Question"
          [] t = "warning" -> "Warning" ]

Plural ==
    [ t \in Counted |->
        CASE t = "bug" -> "Bugs"
          [] t = "idea" -> "Ideas"
          [] t = "observation" -> "Observations"
          [] t = "question" -> "Questions"
          [] t = "warning" -> "Warnings" ]

(* C25: the summary of a report shows exactly the types among bug, idea,
   observation, question and warning that have at least one note, one line
   each, with the count and the singular label for one note and the plural
   label for two or more; test, snippet and screenshot have no line, and
   with none of the five present there is no summary section *)

C25_SummaryPluralised ==
    \A i \in 1..Len(exports) :
        LET notes == exports[i].notes
            summary == render(exports[i]).summary
        IN /\ \A t \in Counted :
                 IF Count(notes, t) = 0
                 THEN LinesOf(summary, t) = {}
                 ELSE /\ Cardinality(LinesOf(summary, t)) = 1
                      /\ \A k \in LinesOf(summary, t) :
                            /\ summary.lines[k].count = Count(notes, t)
                            /\ summary.lines[k].label =
                                 IF Count(notes, t) = 1 THEN Singular[t] ELSE Plural[t]
           /\ \A t \in {"test", "snippet", "screenshot"} : LinesOf(summary, t) = {}
           /\ ~summary.present <=> \A t \in Counted : Count(notes, t) = 0
           /\ ~summary.present => summary.lines = << >>

C25_Witness ==
    /\ exports # << >>
    /\ Count(exports[1].notes, "bug") = 1
    /\ Count(exports[1].notes, "snippet") = 1
    /\ render(exports[1]).summary =
         [present |-> TRUE,
          lines |-> << [type |-> "bug", count |-> 1, label |-> "Bug"] >>]


(* C26: once a region capture has set the capturing flag, the flag comes
   back to false, whichever way the attempt goes: the overlay does not open,
   it is cancelled, a selection is submitted, the submission fails and the
   overlay is closed, or the OS-native capture returns, times out or throws *)

C26_FlagEventuallyCleared == isRegionCapturing ~> ~isRegionCapturing


(* the effect runs that were cleaned up and whose async function is over *)

Gone == { k \in 1..Len(effects) : effects[k].disposed /\ effects[k].pc = "done" }

(* C27: once the main component is unmounted and the registration it
   started is over, none of the listeners it registered, for region-selected
   or for region-overlay-closed, is registered any more, also when the
   unmount came before the registration resolved *)

C27_UnmountUnregisters ==
    \A k \in Gone : \A l \in listeners : l.effect # k

(* C28: mounting, unmounting and mounting the main component again, in any
   interleaving with the registration, never leaves two region-selected
   listeners registered, and a submitted selection is handed to one
   listener at most *)

C28_SelectionConsumedOnce ==
    /\ [](Cardinality(ListenersOf("region-selected")) <= 1)
    /\ [][ last'.op = "submit-ok" => Len(inbox') <= Len(inbox) + 1 ]_vars


(* the same session, whatever notes it holds *)

SameSession(a, b) ==
    /\ a # NoSession
    /\ b # NoSession
    /\ a.testerName = b.testerName
    /\ a.charter = b.charter
    /\ a.startedAt = b.startedAt

(* C29: whenever the export-failure message is set a session is active, the
   one whose export failed: the message is not set once the session is
   discarded, and a session started later does not begin with it *)

C29_FailureMessageHasItsSession ==
    /\ [](exportError => session # NoSession)
    /\ [][ /\ ExportFailing =>
                \E i \in 1..Len(exports) :
                    /\ exports' = RemoveAt(exports, i)
                    /\ SameSession(exports[i], session')
           /\ last'.op = "start" => ~exportError' ]_vars


(* a full-screen capture ends: its call leaves shots *)

ShotEnding(i) == i \in 1..Len(shots) /\ shots' = RemoveAt(shots, i)

(* C30: while a full-screen capture is in progress no second full-screen
   capture and no region capture is started, and a full-screen capture that
   ends, with a note, refused or thrown, leaves the in-progress flag of its
   panel cleared *)

C30_FullScreenCaptureExcludes ==
    [][ /\ last'.op = "shot-start" => shots = << >>
        /\ last'.op = "region-open" => shots = << >>
        /\ \A i \in 1..Len(shots) :
              ShotEnding(i) /\ Mounted(shots[i]) => ~isCapturing' ]_vars


(* the calls of captureScreenshot still in flight after a step are calls
   that were in flight before it, where they stood: none has gone on *)

NoShotWentOn ==
    /\ Len(shots') = Len(shots) - 1
    /\ \A i \in 1..Len(shots') : shots'[i] \in { shots[k] : k \in 1..Len(shots) }

(* C31: when the permission is still missing at the second check, the
   full-screen capture ends there: it asks for no monitors and no
   screenshot, the session and its notes are as they were, and the
   in-progress flag is cleared *)

C31_PermissionMissingEndsCapture ==
    [][ last'.op = "permission-missing" =>
          /\ NoShotWentOn
          /\ session' = session
          /\ nextId' = nextId
          /\ ~isCapturing' ]_vars

C31_Witness ==
    /\ last.op = "permission-missing"
    /\ last.at = "requested"
    /\ shots = << >>
    /\ ~isCapturing
    /\ session # NoSession


(* the call of captureScreenshot whose unique_screenshot_copy settled in
   this step *)

CopySettling(i) ==
    /\ i \in 1..Len(shots)
    /\ shots[i].pc = "copy"
    /\ shots' = RemoveAt(shots, i)
    /\ last'.op \in {"shot-original", "shot-copied"}

(* C32: when the unique copy fails the capture still commits one screenshot
   note, with the path of the original screenshot as its text; when the
   copy succeeds the one note committed has the path of the copy *)

C32_CopyFailureKeepsOriginal ==
    [][ \A i \in 1..Len(shots) :
          CopySettling(i) /\ session # NoSession =>
             /\ Len(session'.notes) = Min(Len(session.notes) + 1, NOTE_CAP)
             /\ Shifted
             /\ session'.notes[1].type = "screenshot"
             /\ last'.op = "shot-original" => session'.notes[1].text = shots[i].path
             /\ last'.op = "shot-copied" => session'.notes[1].text = last'.path ]_vars

C32_Witness ==
    /\ last.op = "shot-original"
    /\ session # NoSession
    /\ session.notes[1].type = "screenshot"
    /\ session.notes[1].text = FullPath
    /\ shots = << >>
    /\ ~isCapturing


(* C33: a region-selected event that arrives with no session is dropped: no
   monitors are asked for, nothing is captured or cropped; and a commit
   with no session leaves the session absent, so that a session only ever
   comes from Start *)

C33_NoSessionIgnoresSelection ==
    [][ /\ last'.op \in {"selected", "selected-ignored"} /\ session = NoSession =>
              /\ last'.op = "selected-ignored"
              /\ session' = NoSession
              /\ pipelines' = pipelines
              /\ nextId' = nextId
              /\ Len(inbox') = Len(inbox) - 1
        /\ session = NoSession /\ last'.op # "start" => session' = NoSession
        /\ session = NoSession /\ session' # NoSession => session'.notes = << >> ]_vars

(* C34: the stored notes run from the newest timestamp down: no note is
   followed by one with a later timestamp (checked on neighbours, which
   gives it for every pair), whichever way the notes were committed and
   however long a capture was awaited meanwhile *)

C34_TimestampsNonIncreasing ==
    session # NoSession =>
        \A i \in 1..(Len(session.notes) - 1) :
            session.notes[i].timestamp >= session.notes[i + 1].timestamp

C34_Witness ==
    /\ session # NoSession
    /\ Len(session.notes) >= 3
    /\ session.notes[1].type = "screenshot"
    /\ session.notes[1].timestamp = 1
    /\ session.notes[2].type = "test"
    /\ session.notes[2].timestamp = 1
    /\ session.notes[2].id = 1
    /\ session.notes[3].timestamp = 0


(* the crop of pipeline i resolves and its listener commits *)

CropCommitting(i) ==
    /\ i \in 1..Len(pipelines)
    /\ pipelines[i].pc = "crop"
    /\ pipelines' = RemoveAt(pipelines, i)
    /\ last'.op = "cropped"

(* C35: a region capture's screenshot note is added only to the session that
   was active when its listener ran: when that session is gone by the time
   the crop resolves, the session started afterwards is left as it is *)

C35_NoteGoesToItsSession ==
    [][ \A i \in 1..Len(pipelines) :
            CropCommitting(i) /\ ~SameSession(pipelines[i].s, session) => session' = session ]_vars


(* C36: the export that ends a session was handed every note the session
   holds when it is discarded: no note committed while the export was
   awaited is dropped unexported *)

C36_DiscardedNotesWereExported ==
    [][ last'.op = "export-ok" /\ session # NoSession =>
            \E i \in 1..Len(exports) :
                /\ exports' = RemoveAt(exports, i)
                /\ exports[i].notes = session.notes ]_vars


(* the crop position of pipeline p lies within the monitor it chose *)

CropWithinChosen(p) ==
    LET m == p.monitors[Chosen(p)] IN
    /\ 0 <= p.crop.x
    /\ p.crop.x < m.size.width
    /\ 0 <= p.crop.y
    /\ p.crop.y < m.size.height

(* C37: when some monitor of the list holds the selection's top-left corner,
   the translated crop position is at least 0 and less than the chosen
   monitor's width and height; a crop position outside the chosen monitor
   occurs only when no monitor holds the corner and the first one is taken *)

C37_CropWithinContainingMonitor ==
    \A i \in Picked :
        LET p == pipelines[i] IN
        /\ Holding(p) # {} => CropWithinChosen(p)
        /\ ~CropWithinChosen(p) => Holding(p) = {} /\ Chosen(p) = 1

(* The corner (100,0) is on the right edge of monitor 1 and the left edge of
   monitor 2: monitor 2 is chosen and the crop starts at its origin *)

C37_Witness ==
    \E i \in Picked :
        LET p == pipelines[i] IN
        /\ p.monitors = <<MonA, MonB>>
        /\ p.selection.x = 100
        /\ p.selection.y = 0
        /\ p.monitorId = 2
        /\ p.crop.x = 0
        /\ p.crop.y = 0
        /\ p.pc = "crop"


(* the seven types a typed note may have *)

TypedTypes == { "test", "bug", "idea", "observation", "warning", "question", "snippet" }

(* the steps in which a capture path commits its note *)

CaptureCommits == { "cropped", "shot-copied", "shot-original", "snip-commit" }

(* C38: a note enters the session from the text input or from a capture
   path; the note of a capture path has the type screenshot and no other
   note has it: the note committed from the text input has one of the seven
   types of the cycle, whatever arrow keys and quick picks came before *)

C38_ScreenshotOnlyFromCapture ==
    /\ [](noteType \in TypedTypes)
    /\ [][ session # NoSession /\ session' # NoSession /\ session'.notes # session.notes =>
             /\ last'.op \in CaptureCommits \cup {"commit"}
             /\ Tail(session'.notes) = SubSeq(session.notes, 1, Len(session'.notes) - 1)
             /\ last'.op \in CaptureCommits <=> session'.notes[1].type = "screenshot"
             /\ last'.op = "commit" => session'.notes[1].type \in TypedTypes ]_vars

(* A question note typed after Alt+6 lies above the screenshot note of a
   capture, with the type cycled on to snippet *)

C38_Witness ==
    /\ session # NoSession
    /\ Len(session.notes) >= 2
    /\ session.notes[1].type = "question"
    /\ session.notes[2].type = "screenshot"
    /\ noteType = "snippet"
    /\ last.op = "arrow-down"


====
